---- MODULE Spec2Model ----
(***************************************************************************)
(* Model of the video decode paths of opennow-streamer.                    *)
(* The native DXVA HEVC decode path                                        *)
(* (media/dxva_decoder.rs): surface pool allocator, decoded picture buffer *)
(* (DPB), picture order count (POC) derivation, picture-parameter          *)
(* reference lists, bitstream framing and the per-frame hardware call      *)
(* sequence.                                                               *)
(***************************************************************************)
EXTENDS Integers, Sequences, FiniteSets, TLC

(***************************************************************************)
(* Bounds of the model.  dpb_max_size is 18 in the source                  *)
(* (dxva_decoder.rs:179); it is scaled down here so that the full DPB, the *)
(* eviction loop and the exhausted surface pool are all reached.           *)
(***************************************************************************)
dpb_max_size == 2
\* surface_count ranges over 1 .. dpb_max_size + ExtraSurfaces
ExtraSurfaces == 1
\* frame_count (u64) is capped: decode_frame is not taken beyond it
MaxFrames == 3
\* |prev_poc_msb| is capped at MaxWraps * max_poc_lsb (i32 in the source)
MaxWraps == 1
\* in the POC derivation checked alone |prev_poc_msb| is capped at MaxPocWraps * max_poc_lsb
MaxPocWraps == 2
\* the picture-parameter builder checked alone is given DPBs of up to MaxBuildDpb entries
MaxBuildDpb == 3
\* the reference lists are also built from DPBs of up to MaxListedDpb entries
\* (the dpb_max_size of the source), which exceed the 15 list entries
MaxListedDpb == 18
\* the accelerator enumerates up to MaxConfigs decoder configurations
MaxConfigs == 3
\* the bitstream framing checked alone is given up to MaxNals slice NAL units
MaxNals == 3

\* the decode loops are given up to MaxCommands numbered DecodeAsync commands
MaxCommands == 7
\* and at most MaxQueue commands wait in the command channel
MaxQueue == 2
\* the GStreamer pipeline delivers up to MaxSamples decoded samples
MaxSamples == 4
\* and GStreamerDecoder::decode is called up to MaxDecodeCalls times
MaxDecodeCalls == 4
\* capacity of the stats channel (64 in the source)
StatsCapacity == 1
\* consecutive-failure counts above MaxFailures are folded down by one
\* re-trigger period, which keeps every test the loops make on them
MaxFailures == 26

(***************************************************************************)
(* Program constants.                                                      *)
(***************************************************************************)
\* DxvaPicEntryHevc::invalid and the reference-set sentinel
INVALID == 255
\* ref_pic_list: [DxvaPicEntryHevc; 15]
REF_PIC_LIST_LEN == 15
\* ref_pic_set_st_curr_before / _after / lt_curr: [u8; 8]
REF_PIC_SET_LEN == 8
\* initial max_poc_lsb of a new decoder
DEFAULT_MAX_POC_LSB == 256
\* the alignment of the submitted bitstream: (total_size + 127) & !127
BITSTREAM_ALIGN == 128

\* KEYFRAME_REQUEST_THRESHOLD of the native DXVA worker
NATIVE_KEYFRAME_REQUEST_THRESHOLD == 3
\* KEYFRAME_REQUEST_THRESHOLD of the Linux GStreamer worker
LINUX_KEYFRAME_REQUEST_THRESHOLD == 5
\* GStreamerDecoderWrapper::KEYFRAME_REQUEST_THRESHOLD
WRAPPER_KEYFRAME_REQUEST_THRESHOLD == 3
\* consecutive_failures % 20 == 0
RETRIGGER_PERIOD == 20
\* the Linux worker does not show its first FRAMES_TO_SKIP frames
FRAMES_TO_SKIP == 5

\* `x as u8`
AsU8(x) == x % 256

\* surface pool sizes a decoder can be configured with (ArraySize >= 1)
SurfaceCounts == 1 .. (dpb_max_size + ExtraSurfaces)
\* log2_max_poc_lsb of the active SPS (H.265: 4..16)
Log2MaxPocLsbs == {4}
\* numbers of slice NAL units in one bitstream passed to decode_frame
SliceCounts == {0, 2}
\* pic_order_cnt_lsb values of the slice headers fed to the decoder
PocLsbs == {0, 12}

VARIABLES
    surface_count,        \* config.surface_count
    current_surface,      \* round-robin cursor
    dpb,                  \* Vec<DpbEntry>
    frame_count,
    prev_poc_lsb,
    prev_poc_msb,
    max_poc_lsb,
    op,                   \* the last operation called on the decoder
    args,                 \* its inputs
    acq,                  \* the last get_next_surface call: DPB and cursor at the call, result
    pic_params,           \* the last picture parameters built, with the DPB they were built from
    calls,                \* hardware calls (and update_dpb) of the last decode_frame, in order
    result,               \* "ok" / "err" of the last decode_frame
    pre,                  \* DPB, frame counter and POC history when the last operation was called
    poc_ref,              \* POC derivation alone: the picture's true POC and the value returned
    bits,                 \* bitstream framing alone: the slice NAL units, the mode and the output
    loop_kind,            \* which decode loop runs: "native", "linux", "wrapper" or "none"
    cmd_queue,            \* the mpsc command channel of the worker thread
    handle_dropped,       \* the NativeVideoDecoder / VideoDecoder handle was dropped
    worker_exited,        \* the worker thread left its receive loop
    decoder_ready,        \* native worker: decoder.is_some()
    consecutive_failures,
    frames_decoded,
    stats_channel,        \* the bounded tokio channel of stats messages
    shared_frame,         \* SharedFrame: the command whose frame was written last (0: none)
    last,                 \* the last command handled and the stats message built for it
    hist,                 \* history: numbered commands enqueued and handled, failed
                          \* DecodeAsync calls in a row, the frame written before the last
                          \* one, and whether the stats consumer received
                          \* needs_keyframe since the last frame was produced
    last_frame,           \* GStreamerDecoder.last_frame: the sample held (0: None)
    last_frame_lock,      \* who holds the mutex of last_frame: "none", "callback", "decode"
    appsink,              \* the new-sample callback on the streaming thread: position, sample
    decode_pc,            \* GStreamerDecoder::decode on the caller's thread: position
    gst,                  \* history: decode calls made, samples pulled, the sample stored
                          \* last, frames overwritten untaken, frames returned in order
    upd,                  \* update_dpb run step by step: position, arguments, loop count
    RAW_INPUT_REGISTERED, \* input/linux.rs statics, under their own names
    RAW_INPUT_ACTIVE,
    STOP_REQUESTED,
    ACCUMULATED_DX,
    ACCUMULATED_DY,
    COALESCE_DX,
    COALESCE_DY,
    LOCAL_CURSOR_X,
    LOCAL_CURSOR_Y,
    LOCAL_CURSOR_WIDTH,
    LOCAL_CURSOR_HEIGHT,
    EVENT_SENDER,         \* the channel behind the installed sender: the events sent, in
                          \* order; "None" while no sender is installed
    input_threads,        \* raw-input threads spawned so far: position and locals of each
    callers,              \* threads calling the public functions: position and locals of each
    input_hist            \* history: deltas passed to process_mouse_delta, calls returned

gst_vars == <<last_frame, last_frame_lock, appsink, decode_pc, gst>>

worker_vars == <<loop_kind, cmd_queue, handle_dropped, worker_exited, decoder_ready,
                 consecutive_failures, frames_decoded, stats_channel, shared_frame,
                 last, hist>>

decoder_vars == <<surface_count, current_surface, dpb, frame_count, prev_poc_lsb,
                  prev_poc_msb, max_poc_lsb, op, args, acq, pic_params, calls, result,
                  pre, poc_ref, bits>>

input_vars == <<RAW_INPUT_REGISTERED, RAW_INPUT_ACTIVE, STOP_REQUESTED, ACCUMULATED_DX,
                ACCUMULATED_DY, COALESCE_DX, COALESCE_DY, LOCAL_CURSOR_X, LOCAL_CURSOR_Y,
                LOCAL_CURSOR_WIDTH, LOCAL_CURSOR_HEIGHT, EVENT_SENDER, input_threads,
                callers, input_hist>>

vars == <<decoder_vars, worker_vars, gst_vars, upd, input_vars>>

NoCommand == [type |-> "none", id |-> 0]
NoStats == [sent |-> FALSE]
NoHistory ==
    [enqueued |-> 0, handled |-> 0, run |-> 0, prev_written |-> 0, kf_received |-> FALSE]

\* no update_dpb call is being stepped through
UpdIdle == upd = [pc |-> "idle"]

\* nothing has happened on the input side yet
NoInputHistory ==
    [events |-> 0, calls |-> 0, passed_dx |-> 0, passed_dy |-> 0, unsent |-> FALSE,
     truncated |-> FALSE, paused |-> FALSE, late |-> FALSE, spawned |-> 0,
     forced |-> FALSE, overwritten |-> FALSE]

\* the statics of input/linux.rs as initialised, no thread started, no call made
InputIdle ==
    /\ RAW_INPUT_REGISTERED = FALSE
    /\ RAW_INPUT_ACTIVE = FALSE
    /\ STOP_REQUESTED = FALSE
    /\ ACCUMULATED_DX = 0
    /\ ACCUMULATED_DY = 0
    /\ COALESCE_DX = 0
    /\ COALESCE_DY = 0
    /\ LOCAL_CURSOR_X = 960
    /\ LOCAL_CURSOR_Y = 540
    /\ LOCAL_CURSOR_WIDTH = 1920
    /\ LOCAL_CURSOR_HEIGHT = 1080
    /\ EVENT_SENDER = "None"
    /\ input_threads = <<>>
    /\ callers = <<>>
    /\ input_hist = NoInputHistory

\* a GStreamer decoder right after GStreamerDecoder::new
GstIdle ==
    /\ last_frame = 0
    /\ last_frame_lock = "none"
    /\ appsink = [pc |-> "idle", sample |-> 0]
    /\ decode_pc = "idle"
    /\ gst = [calls |-> 0, samples |-> 0, stored |-> 0, replaced |-> 0, returned |-> <<>>]

\* no decode loop is running: the decoder is driven directly
WorkerIdle ==
    /\ loop_kind = "none"
    /\ cmd_queue = <<>>
    /\ handle_dropped = FALSE
    /\ worker_exited = FALSE
    /\ decoder_ready = FALSE
    /\ consecutive_failures = 0
    /\ frames_decoded = 0
    /\ stats_channel = <<>>
    /\ shared_frame = 0
    /\ last = [cmd |-> NoCommand, outcome |-> "none", stats |-> NoStats, wrote |-> FALSE]
    /\ hist = NoHistory

\* DpbEntry built with surface_index left at its Default value
DpbEntry_default_surface(surface_index, poc, is_reference, is_long_term, frame_num) ==
    [surface_index |-> 0, poc |-> poc, is_reference |-> is_reference,
     is_long_term |-> is_long_term, frame_num |-> frame_num]

DpbEntry(surface_index, poc, is_reference, is_long_term, frame_num) ==
    [surface_index |-> surface_index, poc |-> poc, is_reference |-> is_reference,
     is_long_term |-> is_long_term, frame_num |-> frame_num]

\* self.dpb.iter().any(|entry| entry.surface_index == candidate as u8)
in_dpb(d, candidate) == \E i \in 1 .. Len(d) : d[i].surface_index = AsU8(candidate)

\* the scan without the DPB check: the candidate under the cursor is returned
scan_surfaces_unchecked(n, cur, d, sc) ==
    [found |-> n > 0, surface |-> cur, cursor |-> IF n > 0 THEN (cur + 1) % sc ELSE cur]

\* the scan with a cursor that is advanced without wrapping at surface_count
RECURSIVE scan_surfaces_no_wrap(_, _, _, _)
scan_surfaces_no_wrap(n, cur, d, sc) ==
    IF n = 0
    THEN [found |-> FALSE, surface |-> 0, cursor |-> cur]
    ELSE IF ~in_dpb(d, cur)
         THEN [found |-> TRUE, surface |-> cur, cursor |-> cur + 1]
         ELSE scan_surfaces_no_wrap(n - 1, cur + 1, d, sc)

\* the scan loop leaving the cursor on the candidate it returns
RECURSIVE scan_surfaces_cursor_kept(_, _, _, _)
scan_surfaces_cursor_kept(n, cur, d, sc) ==
    IF n = 0
    THEN [found |-> FALSE, surface |-> 0, cursor |-> cur]
    ELSE LET candidate == cur
             next == (cur + 1) % sc
         IN  IF ~in_dpb(d, candidate)
             THEN [found |-> TRUE, surface |-> candidate, cursor |-> candidate]
             ELSE scan_surfaces_cursor_kept(n - 1, next, d, sc)

\* the scan loop of get_next_surface: up to n more candidates from cursor cur
RECURSIVE scan_surfaces(_, _, _, _)
scan_surfaces(n, cur, d, sc) ==
    IF n = 0
    THEN [found |-> FALSE, surface |-> 0, cursor |-> cur]
    ELSE LET candidate == cur
             next == (cur + 1) % sc
         IN  IF ~in_dpb(d, candidate)
             THEN [found |-> TRUE, surface |-> candidate, cursor |-> next]
             ELSE scan_surfaces(n - 1, next, d, sc)

\* get_next_surface whose exhaustion fallback takes the last DPB entry
get_next_surface_evict_last(cur, d, sc) ==
    LET s == scan_surfaces(sc, cur, d, sc)
    IN  IF s.found
        THEN [surface |-> s.surface, cursor |-> s.cursor, dpb |-> d, branch |-> "free"]
        ELSE IF Len(d) > 0
        THEN [surface |-> d[Len(d)].surface_index, cursor |-> s.cursor,
              dpb |-> SubSeq(d, 1, Len(d) - 1), branch |-> "evict_first"]
        ELSE [surface |-> s.cursor, cursor |-> (s.cursor + 1) % sc, dpb |-> d,
              branch |-> "last_resort"]

\* get_next_surface whose exhaustion fallback leaves the entry in the DPB
get_next_surface_no_removal(cur, d, sc) ==
    LET s == scan_surfaces(sc, cur, d, sc)
    IN  IF s.found
        THEN [surface |-> s.surface, cursor |-> s.cursor, dpb |-> d, branch |-> "free"]
        ELSE IF Len(d) > 0
        THEN [surface |-> d[1].surface_index, cursor |-> s.cursor, dpb |-> d,
              branch |-> "evict_first"]
        ELSE [surface |-> s.cursor, cursor |-> (s.cursor + 1) % sc, dpb |-> d,
              branch |-> "last_resort"]

\* get_next_surface with a scan that stops one candidate short of the pool
get_next_surface_short_scan(cur, d, sc) ==
    LET s == scan_surfaces(sc - 1, cur, d, sc)
    IN  IF s.found
        THEN [surface |-> s.surface, cursor |-> s.cursor, dpb |-> d, branch |-> "free"]
        ELSE IF Len(d) > 0
        THEN [surface |-> d[1].surface_index, cursor |-> s.cursor, dpb |-> Tail(d),
              branch |-> "evict_first"]
        ELSE [surface |-> s.cursor, cursor |-> (s.cursor + 1) % sc, dpb |-> d,
              branch |-> "last_resort"]

\* DxvaDecoder::get_next_surface: result, new cursor, new DPB and the branch taken
get_next_surface(cur, d, sc) ==
    LET s == scan_surfaces(sc, cur, d, sc)
    IN  IF s.found
        THEN [surface |-> s.surface, cursor |-> s.cursor, dpb |-> d, branch |-> "free"]
        ELSE IF Len(d) > 0
        THEN [surface |-> d[1].surface_index, cursor |-> s.cursor, dpb |-> Tail(d),
              branch |-> "evict_first"]
        ELSE [surface |-> s.cursor, cursor |-> (s.cursor + 1) % sc, dpb |-> d,
              branch |-> "last_resort"]

\* position of the first entry with the lowest POC
oldest_idx_by_poc(d) ==
    CHOOSE i \in 1 .. Len(d) :
        /\ \A j \in 1 .. Len(d) : d[i].poc <= d[j].poc
        /\ \A j \in 1 .. (i - 1) : d[j].poc > d[i].poc

\* position of the first entry with the lowest frame_num:
\* dpb.iter().enumerate().min_by_key(|(_, e)| e.frame_num)
oldest_idx(d) ==
    CHOOSE i \in 1 .. Len(d) :
        /\ \A j \in 1 .. Len(d) : d[i].frame_num <= d[j].frame_num
        /\ \A j \in 1 .. (i - 1) : d[j].frame_num > d[i].frame_num

\* Vec::remove(i) (1-based here)
remove_at(d, i) == SubSeq(d, 1, i - 1) \o SubSeq(d, i + 1, Len(d))

\* the eviction loop with `>` for `>=`
RECURSIVE evict_oldest_late(_)
evict_oldest_late(d) ==
    IF Len(d) > dpb_max_size
    THEN evict_oldest_late(remove_at(d, oldest_idx(d)))
    ELSE d

\* the eviction loop of update_dpb: while self.dpb.len() >= self.dpb_max_size
RECURSIVE evict_oldest(_)
evict_oldest(d) ==
    IF Len(d) >= dpb_max_size
    THEN evict_oldest(remove_at(d, oldest_idx(d)))
    ELSE d

\* self.dpb.retain(|entry| entry.surface_index != surface_idx as u8)
retain_other_surfaces(d, surface_idx) ==
    SelectSeq(d, LAMBDA e : e.surface_index # AsU8(surface_idx))

\* update_dpb that does not keep an IDR frame as a reference
update_dpb_idr_not_kept(d, fc, pl, pm, surface_idx, poc, is_reference, is_idr) ==
    LET fc1 == fc + 1
        d1 == IF is_idr THEN <<>> ELSE d
        d2 == retain_other_surfaces(d1, surface_idx)
        d3 == evict_oldest(d2)
        d4 == IF is_reference /\ ~is_idr
              THEN Append(d3, DpbEntry(AsU8(surface_idx), poc, TRUE, FALSE, fc1))
              ELSE d3
    IN  [dpb |-> d4, frame_count |-> fc1,
         prev_poc_lsb |-> IF is_idr THEN 0 ELSE pl,
         prev_poc_msb |-> IF is_idr THEN 0 ELSE pm]

\* update_dpb that zeroes the frame counter on an IDR frame
update_dpb_idr_resets_count(d, fc, pl, pm, surface_idx, poc, is_reference, is_idr) ==
    LET fc1 == IF is_idr THEN 0 ELSE fc + 1
        d1 == IF is_idr THEN <<>> ELSE d
        d2 == retain_other_surfaces(d1, surface_idx)
        d3 == evict_oldest(d2)
        d4 == IF is_reference
              THEN Append(d3, DpbEntry(AsU8(surface_idx), poc, TRUE, FALSE, fc1))
              ELSE d3
    IN  [dpb |-> d4, frame_count |-> fc1,
         prev_poc_lsb |-> IF is_idr THEN 0 ELSE pl,
         prev_poc_msb |-> IF is_idr THEN 0 ELSE pm]

\* update_dpb that appends the frame whether or not it is a reference
update_dpb_always_push(d, fc, pl, pm, surface_idx, poc, is_reference, is_idr) ==
    LET fc1 == fc + 1
        d1 == IF is_idr THEN <<>> ELSE d
        d2 == retain_other_surfaces(d1, surface_idx)
        d3 == evict_oldest(d2)
        d4 == Append(d3, DpbEntry(AsU8(surface_idx), poc, TRUE, FALSE, fc1))
    IN  [dpb |-> d4, frame_count |-> fc1,
         prev_poc_lsb |-> IF is_idr THEN 0 ELSE pl,
         prev_poc_msb |-> IF is_idr THEN 0 ELSE pm]

\* DxvaDecoder::update_dpb
update_dpb(d, fc, pl, pm, surface_idx, poc, is_reference, is_idr) ==
    LET fc1 == fc + 1
        d1 == IF is_idr THEN <<>> ELSE d
        d2 == retain_other_surfaces(d1, surface_idx)
        d3 == evict_oldest(d2)
        d4 == IF is_reference
              THEN Append(d3, DpbEntry(AsU8(surface_idx), poc, TRUE, FALSE, fc1))
              ELSE d3
    IN  [dpb |-> d4, frame_count |-> fc1,
         prev_poc_lsb |-> IF is_idr THEN 0 ELSE pl,
         prev_poc_msb |-> IF is_idr THEN 0 ELSE pm]

\* calculate_full_poc with `>` for `>=` in the upward-wrap test
calculate_full_poc_strict(pl, pm, poc_lsb, is_idr, max) ==
    IF is_idr
    THEN [full_poc |-> 0, prev_poc_lsb |-> 0, prev_poc_msb |-> 0]
    ELSE LET half_max_poc_lsb == max \div 2
             poc_msb == IF poc_lsb < pl /\ (pl - poc_lsb) > half_max_poc_lsb
                        THEN pm + max
                        ELSE IF poc_lsb > pl /\ (poc_lsb - pl) > half_max_poc_lsb
                        THEN pm - max
                        ELSE pm
         IN  [full_poc |-> poc_msb + poc_lsb, prev_poc_lsb |-> poc_lsb,
              prev_poc_msb |-> poc_msb]

\* calculate_full_poc stepping the MSB by half a range on an upward wrap
calculate_full_poc_half_step(pl, pm, poc_lsb, is_idr, max) ==
    IF is_idr
    THEN [full_poc |-> 0, prev_poc_lsb |-> 0, prev_poc_msb |-> 0]
    ELSE LET half_max_poc_lsb == max \div 2
             poc_msb == IF poc_lsb < pl /\ (pl - poc_lsb) >= half_max_poc_lsb
                        THEN pm + half_max_poc_lsb
                        ELSE IF poc_lsb > pl /\ (poc_lsb - pl) > half_max_poc_lsb
                        THEN pm - max
                        ELSE pm
         IN  [full_poc |-> poc_msb + poc_lsb, prev_poc_lsb |-> poc_lsb,
              prev_poc_msb |-> poc_msb]

\* DxvaDecoder::calculate_full_poc
calculate_full_poc(pl, pm, poc_lsb, is_idr, max) ==
    IF is_idr
    THEN [full_poc |-> 0, prev_poc_lsb |-> 0, prev_poc_msb |-> 0]
    ELSE LET half_max_poc_lsb == max \div 2
             poc_msb == IF poc_lsb < pl /\ (pl - poc_lsb) >= half_max_poc_lsb
                        THEN pm + max
                        ELSE IF poc_lsb > pl /\ (poc_lsb - pl) > half_max_poc_lsb
                        THEN pm - max
                        ELSE pm
         IN  [full_poc |-> poc_msb + poc_lsb, prev_poc_lsb |-> poc_lsb,
              prev_poc_msb |-> poc_msb]

\* DxvaPicEntryHevc::new: (index & 0x7F) | (0x80 if long-term)
pic_entry(index, is_long_term) == (index % 128) + (IF is_long_term THEN 128 ELSE 0)

\* stable insertion of e into a list kept in ascending sign * poc order
RECURSIVE insert_by_poc(_, _, _)
insert_by_poc(sorted, e, sign) ==
    IF sorted = <<>> \/ sign * e.poc < sign * Head(sorted).poc
    THEN <<e>> \o sorted
    ELSE <<Head(sorted)>> \o insert_by_poc(Tail(sorted), e, sign)

\* Vec::sort_by on poc (stable): sign = 1 ascending, sign = -1 descending
RECURSIVE sort_by_poc(_, _)
sort_by_poc(s, sign) ==
    IF s = <<>>
    THEN <<>>
    ELSE insert_by_poc(sort_by_poc(SubSeq(s, 1, Len(s) - 1), sign), s[Len(s)], sign)

\* refs_before sorted the wrong way round (oldest first)
refs_before_ascending(d, current_poc) ==
    sort_by_poc(SelectSeq(d, LAMBDA e : e.is_reference /\ ~e.is_long_term
                                        /\ e.poc < current_poc), 1)

\* refs_before: short-term references with poc < current_poc, most recent first
refs_before(d, current_poc) ==
    sort_by_poc(SelectSeq(d, LAMBDA e : e.is_reference /\ ~e.is_long_term
                                        /\ e.poc < current_poc), -1)

\* refs_after: short-term references with poc > current_poc, closest first
refs_after(d, current_poc) ==
    sort_by_poc(SelectSeq(d, LAMBDA e : e.is_reference /\ ~e.is_long_term
                                        /\ e.poc > current_poc), 1)

\* the picture parameters with every reference marked invalid
empty_pic_params(surface_idx, current_poc, is_idr) ==
    [curr_pic |-> pic_entry(AsU8(surface_idx), FALSE),
     curr_pic_order_cnt_val |-> current_poc,
     idr_pic_flag |-> is_idr,
     ref_pic_list |-> [i \in 1 .. REF_PIC_LIST_LEN |-> INVALID],
     pic_order_cnt_val_list |-> [i \in 1 .. REF_PIC_LIST_LEN |-> 0],
     ref_pic_set_st_curr_before |-> [i \in 1 .. REF_PIC_SET_LEN |-> INVALID],
     ref_pic_set_st_curr_after |-> [i \in 1 .. REF_PIC_SET_LEN |-> INVALID],
     ref_pic_set_lt_curr |-> [i \in 1 .. REF_PIC_SET_LEN |-> INVALID],
     ref_idx |-> 0, st_curr_before_idx |-> 0, st_curr_after_idx |-> 0]

\* the loop "for dpb_entry in &refs_before": ref_idx counts the list entries written
RECURSIVE add_refs_before(_, _)
add_refs_before(pp, refs) ==
    IF refs = <<>> \/ pp.ref_idx >= REF_PIC_LIST_LEN
    THEN pp
    ELSE LET e == Head(refs)
             p1 == [pp EXCEPT
                       !.ref_pic_list[pp.ref_idx + 1] = pic_entry(e.surface_index, FALSE),
                       !.pic_order_cnt_val_list[pp.ref_idx + 1] = e.poc]
             p2 == IF pp.st_curr_before_idx < REF_PIC_SET_LEN
                   THEN [p1 EXCEPT
                            !.ref_pic_set_st_curr_before[pp.st_curr_before_idx + 1] =
                                AsU8(pp.ref_idx),
                            !.st_curr_before_idx = pp.st_curr_before_idx + 1]
                   ELSE p1
         IN  add_refs_before([p2 EXCEPT !.ref_idx = pp.ref_idx + 1], Tail(refs))

\* the loop over refs_after without the break at 15 list entries
RECURSIVE add_refs_after_uncapped(_, _)
add_refs_after_uncapped(pp, refs) ==
    IF refs = <<>>
    THEN pp
    ELSE LET e == Head(refs)
             p1 == [pp EXCEPT
                       !.ref_pic_list[pp.ref_idx + 1] = pic_entry(e.surface_index, FALSE),
                       !.pic_order_cnt_val_list[pp.ref_idx + 1] = e.poc]
             p2 == IF pp.st_curr_after_idx < REF_PIC_SET_LEN
                   THEN [p1 EXCEPT
                            !.ref_pic_set_st_curr_after[pp.st_curr_after_idx + 1] =
                                AsU8(pp.ref_idx),
                            !.st_curr_after_idx = pp.st_curr_after_idx + 1]
                   ELSE p1
         IN  add_refs_after_uncapped([p2 EXCEPT !.ref_idx = pp.ref_idx + 1], Tail(refs))

\* the loop "for dpb_entry in &refs_after"
RECURSIVE add_refs_after(_, _)
add_refs_after(pp, refs) ==
    IF refs = <<>> \/ pp.ref_idx >= REF_PIC_LIST_LEN
    THEN pp
    ELSE LET e == Head(refs)
             p1 == [pp EXCEPT
                       !.ref_pic_list[pp.ref_idx + 1] = pic_entry(e.surface_index, FALSE),
                       !.pic_order_cnt_val_list[pp.ref_idx + 1] = e.poc]
             p2 == IF pp.st_curr_after_idx < REF_PIC_SET_LEN
                   THEN [p1 EXCEPT
                            !.ref_pic_set_st_curr_after[pp.st_curr_after_idx + 1] =
                                AsU8(pp.ref_idx),
                            !.st_curr_after_idx = pp.st_curr_after_idx + 1]
                   ELSE p1
         IN  add_refs_after([p2 EXCEPT !.ref_idx = pp.ref_idx + 1], Tail(refs))

\* the loop "for dpb_entry in &self.dpb" that appends the long-term references
RECURSIVE add_long_term(_, _)
add_long_term(pp, d) ==
    IF d = <<>> \/ pp.ref_idx >= REF_PIC_LIST_LEN
    THEN pp
    ELSE LET e == Head(d)
         IN  IF e.is_reference /\ e.is_long_term
             THEN add_long_term(
                      [pp EXCEPT
                          !.ref_pic_list[pp.ref_idx + 1] = pic_entry(e.surface_index, TRUE),
                          !.pic_order_cnt_val_list[pp.ref_idx + 1] = e.poc,
                          !.ref_idx = pp.ref_idx + 1],
                      Tail(d))
             ELSE add_long_term(pp, Tail(d))

\* DxvaDecoder::build_hevc_pic_params, the reference part (the SPS/PPS fields are
\* copied from the parameter sets and do not depend on the decoder state)
build_hevc_pic_params(d, is_idr, surface_idx, full_poc) ==
    LET pp0 == empty_pic_params(surface_idx, full_poc, is_idr)
    IN  IF ~is_idr /\ d # <<>>
        THEN add_long_term(
                 add_refs_after(
                     add_refs_before(pp0, refs_before(d, full_poc)),
                     refs_after(d, full_poc)),
                 d)
        ELSE pp0

(***************************************************************************)
(* The per-frame hardware call sequence of decode_frame.                   *)
(***************************************************************************)
HwCall(c, b) == [call |-> c, buf |-> b]

NoFail == [at |-> "none", kind |-> "none"]

BufferTypes == {"PictureParameters", "InverseQuantizationMatrix", "SliceControl", "Bitstream"}

\* the ways one hardware step can fail: the D3D11 call returns an error, or
\* submit_buffer gets a null region, a region smaller than the payload, or an
\* error from ReleaseDecoderBuffer
Failures ==
    {NoFail}
    \cup {[at |-> c, kind |-> "error"] :
            c \in {"DecoderBeginFrame", "SubmitDecoderBuffers", "DecoderEndFrame"}}
    \cup {[at |-> b, kind |-> k] :
            b \in BufferTypes,
            k \in {"GetDecoderBuffer", "null", "too_small", "ReleaseDecoderBuffer"}}

\* submit_buffer with the result of ReleaseDecoderBuffer dropped (.ok() for ?)
submit_buffer_release_ignored(buf, kind) ==
    IF kind \in {"GetDecoderBuffer", "null"}
    THEN [calls |-> <<HwCall("GetDecoderBuffer", buf)>>, ok |-> FALSE]
    ELSE [calls |-> <<HwCall("GetDecoderBuffer", buf), HwCall("ReleaseDecoderBuffer", buf)>>,
          ok |-> kind # "too_small"]

\* DxvaDecoder::submit_buffer: the calls it makes and whether it returns Ok
submit_buffer(buf, kind) ==
    IF kind \in {"GetDecoderBuffer", "null"}
    THEN [calls |-> <<HwCall("GetDecoderBuffer", buf)>>, ok |-> FALSE]
    ELSE [calls |-> <<HwCall("GetDecoderBuffer", buf), HwCall("ReleaseDecoderBuffer", buf)>>,
          ok |-> kind = "none"]

\* the unsafe block of decode_frame with the bitstream submitted before the slice controls
frame_steps_bitstream_first(scaling_list_enabled, n_slice_controls) ==
    <<"DecoderBeginFrame", "PictureParameters">>
    \o (IF scaling_list_enabled THEN <<"InverseQuantizationMatrix">> ELSE <<>>)
    \o <<"Bitstream">>
    \o (IF n_slice_controls > 0 THEN <<"SliceControl">> ELSE <<>>)
    \o <<"SubmitDecoderBuffers", "DecoderEndFrame", "Flush">>

\* the steps of the unsafe block of decode_frame, in program order
frame_steps(scaling_list_enabled, n_slice_controls) ==
    <<"DecoderBeginFrame", "PictureParameters">>
    \o (IF scaling_list_enabled THEN <<"InverseQuantizationMatrix">> ELSE <<>>)
    \o (IF n_slice_controls > 0 THEN <<"SliceControl">> ELSE <<>>)
    \o <<"Bitstream", "SubmitDecoderBuffers", "DecoderEndFrame", "Flush">>

\* one step: a buffer submission or a single call on the video context
hw_step(step, fail) ==
    LET kind == IF fail.at = step THEN fail.kind ELSE "none"
    IN  IF step \in BufferTypes
        THEN submit_buffer(step, kind)
        ELSE [calls |-> <<HwCall(step, "-")>>, ok |-> kind = "none"]

\* the steps run in order; the first failing one returns from decode_frame (`?`)
RECURSIVE run_steps(_, _)
run_steps(steps, fail) ==
    IF steps = <<>>
    THEN [calls |-> <<>>, ok |-> TRUE]
    ELSE LET r == hw_step(Head(steps), fail)
         IN  IF r.ok
             THEN LET rest == run_steps(Tail(steps), fail)
                  IN  [calls |-> r.calls \o rest.calls, ok |-> rest.ok]
             ELSE r

NoAcq == [called |-> FALSE]
NoPicParams == [built |-> FALSE]

\* decode_frame without the clear before the picture parameters are built
clear_dpb_if_idr_skipped(d, is_idr) == d

\* "Clear DPB BEFORE building pic_params for IDR frames" in decode_frame
clear_dpb_if_idr(d, is_idr) == IF is_idr THEN <<>> ELSE d

\* decode_frame with update_dpb run before the hardware calls, so that a frame
\* whose submission fails is tracked all the same
decode_frame_counts_failed(cur, d, fc, pl, pm, mx, sc, in) ==
    IF ~in.parse_ok \/ in.n_slices = 0
    THEN [current_surface |-> cur, dpb |-> d, frame_count |-> fc, prev_poc_lsb |-> pl,
          prev_poc_msb |-> pm, max_poc_lsb |-> mx, acq |-> NoAcq,
          pic_params |-> NoPicParams, calls |-> <<>>, result |-> "err"]
    ELSE LET d1 == clear_dpb_if_idr(d, in.is_idr)
             g == get_next_surface(cur, d1, sc)
             surface_idx == g.surface
             max == 2 ^ in.log2_max_poc_lsb
             p == calculate_full_poc(pl, pm, in.poc_lsb, in.is_idr, max)
             pp == build_hevc_pic_params(g.dpb, in.is_idr, surface_idx, p.full_poc)
             hw == run_steps(frame_steps(in.scaling_list_enabled, in.n_slices), in.fail)
             is_reference == in.is_vcl
             u == update_dpb(g.dpb, fc, p.prev_poc_lsb, p.prev_poc_msb, surface_idx,
                             p.full_poc, is_reference, in.is_idr)
             a == [called |-> TRUE, dpb |-> d1, cursor |-> cur, surface |-> g.surface,
                   branch |-> g.branch]
             built == [built |-> TRUE, dpb |-> g.dpb, surface_idx |-> surface_idx,
                       pp |-> pp]
         IN  IF surface_idx >= sc
             THEN \* self.output_views.get(surface_idx) is None
                  [current_surface |-> g.cursor, dpb |-> g.dpb, frame_count |-> fc,
                   prev_poc_lsb |-> p.prev_poc_lsb, prev_poc_msb |-> p.prev_poc_msb,
                   max_poc_lsb |-> max, acq |-> a, pic_params |-> built,
                   calls |-> <<>>, result |-> "err"]
             ELSE IF ~hw.ok
             THEN [current_surface |-> g.cursor, dpb |-> u.dpb,
                   frame_count |-> u.frame_count, prev_poc_lsb |-> u.prev_poc_lsb,
                   prev_poc_msb |-> u.prev_poc_msb, max_poc_lsb |-> max, acq |-> a,
                   pic_params |-> built, calls |-> hw.calls, result |-> "err"]
             ELSE [current_surface |-> g.cursor, dpb |-> u.dpb,
                   frame_count |-> u.frame_count, prev_poc_lsb |-> u.prev_poc_lsb,
                   prev_poc_msb |-> u.prev_poc_msb, max_poc_lsb |-> max, acq |-> a,
                   pic_params |-> built,
                   calls |-> hw.calls \o <<HwCall("update_dpb", "-")>>, result |-> "ok"]

\* DxvaDecoder::decode_frame on a bitstream whose parsed content is `in`:
\*   in.parse_ok              NAL units, parameter sets and slice header parse
\*   in.n_slices              number of slice NAL units
\*   in.is_idr, in.is_vcl     nal_type.is_idr(), nal_type.is_vcl() of the first slice
\*   in.poc_lsb, in.log2_max_poc_lsb, in.scaling_list_enabled   slice header and SPS
\*   in.fail                  the hardware step that fails, if any
decode_frame(cur, d, fc, pl, pm, mx, sc, in) ==
    IF ~in.parse_ok \/ in.n_slices = 0
    THEN [current_surface |-> cur, dpb |-> d, frame_count |-> fc, prev_poc_lsb |-> pl,
          prev_poc_msb |-> pm, max_poc_lsb |-> mx, acq |-> NoAcq,
          pic_params |-> NoPicParams, calls |-> <<>>, result |-> "err"]
    ELSE LET d1 == clear_dpb_if_idr(d, in.is_idr)
             g == get_next_surface(cur, d1, sc)
             surface_idx == g.surface
             max == 2 ^ in.log2_max_poc_lsb
             p == calculate_full_poc(pl, pm, in.poc_lsb, in.is_idr, max)
             pp == build_hevc_pic_params(g.dpb, in.is_idr, surface_idx, p.full_poc)
             hw == run_steps(frame_steps(in.scaling_list_enabled, in.n_slices), in.fail)
             is_reference == in.is_vcl
             u == update_dpb(g.dpb, fc, p.prev_poc_lsb, p.prev_poc_msb, surface_idx,
                             p.full_poc, is_reference, in.is_idr)
             a == [called |-> TRUE, dpb |-> d1, cursor |-> cur, surface |-> g.surface,
                   branch |-> g.branch]
             built == [built |-> TRUE, dpb |-> g.dpb, surface_idx |-> surface_idx,
                       pp |-> pp]
         IN  IF surface_idx >= sc
             THEN \* self.output_views.get(surface_idx) is None
                  [current_surface |-> g.cursor, dpb |-> g.dpb, frame_count |-> fc,
                   prev_poc_lsb |-> p.prev_poc_lsb, prev_poc_msb |-> p.prev_poc_msb,
                   max_poc_lsb |-> max, acq |-> a, pic_params |-> built,
                   calls |-> <<>>, result |-> "err"]
             ELSE IF ~hw.ok
             THEN [current_surface |-> g.cursor, dpb |-> g.dpb, frame_count |-> fc,
                   prev_poc_lsb |-> p.prev_poc_lsb, prev_poc_msb |-> p.prev_poc_msb,
                   max_poc_lsb |-> max, acq |-> a, pic_params |-> built,
                   calls |-> hw.calls, result |-> "err"]
             ELSE [current_surface |-> g.cursor, dpb |-> u.dpb,
                   frame_count |-> u.frame_count, prev_poc_lsb |-> u.prev_poc_lsb,
                   prev_poc_msb |-> u.prev_poc_msb, max_poc_lsb |-> max, acq |-> a,
                   pic_params |-> built,
                   calls |-> hw.calls \o <<HwCall("update_dpb", "-")>>, result |-> "ok"]

\* the parsed content of the bitstreams fed to decode_frame
Frame(parse_ok, n, i, v, l, g, q, f) ==
    [parse_ok |-> parse_ok, n_slices |-> n, is_idr |-> i, is_vcl |-> v, poc_lsb |-> l,
     log2_max_poc_lsb |-> g, scaling_list_enabled |-> q, fail |-> f]

\* a bitstream that does not parse (no NAL unit, bad parameter set or slice header)
Unparsable == Frame(FALSE, 0, FALSE, FALSE, 0, 4, FALSE, NoFail)

\* frames of every kind, POC and reference flag, decoded by hardware that works
\* or that rejects the bitstream buffer
StreamInputs ==
    {Unparsable}
    \cup {Frame(TRUE, 1, i, v, l, g, FALSE, f) :
            i \in BOOLEAN, v \in BOOLEAN, l \in PocLsbs, g \in Log2MaxPocLsbs,
            f \in {NoFail, [at |-> "Bitstream", kind |-> "too_small"]}}

\* key frames with any number of slices and either scaling-list setting, decoded
\* by hardware that fails at any step in any way, and other frames decoded by
\* hardware that works or fails at the end of the frame (the hardware calls of
\* decode_frame do not depend on the kind of frame)
HwInputs ==
    {Unparsable}
    \cup {Frame(TRUE, n, TRUE, TRUE, 0, g, q, f) :
            n \in SliceCounts, g \in Log2MaxPocLsbs, q \in BOOLEAN, f \in Failures}
    \cup {Frame(TRUE, 1, FALSE, TRUE, 0, g, FALSE, f) :
            g \in Log2MaxPocLsbs,
            f \in {NoFail, [at |-> "DecoderEndFrame", kind |-> "error"]}}

(***************************************************************************)
(* The decoder as a state machine: construction, then any sequence of the  *)
(* public operations.                                                      *)
(***************************************************************************)
\* the decoder fields an operation starts from
Snapshot ==
    [dpb |-> dpb, frame_count |-> frame_count, prev_poc_lsb |-> prev_poc_lsb,
     prev_poc_msb |-> prev_poc_msb]

NoPocRef == [called |-> FALSE]
NoBits == [built |-> FALSE]

Init ==
    /\ surface_count \in SurfaceCounts
    /\ current_surface = 0
    /\ dpb = <<>>
    /\ frame_count = 0
    /\ prev_poc_lsb = 0
    /\ prev_poc_msb = 0
    /\ max_poc_lsb = DEFAULT_MAX_POC_LSB
    /\ op = "new"
    /\ args = [parse_ok |-> FALSE]
    /\ acq = NoAcq
    /\ pic_params = NoPicParams
    /\ calls = <<>>
    /\ result = "none"
    /\ pre = Snapshot
    /\ poc_ref = NoPocRef
    /\ bits = NoBits
    /\ WorkerIdle
    /\ GstIdle
    /\ UpdIdle
    /\ InputIdle

DecodeFrameOn(inputs) ==
    \E in \in inputs :
        \E r \in {decode_frame(current_surface, dpb, frame_count, prev_poc_lsb,
                               prev_poc_msb, max_poc_lsb, surface_count, in)} :
            /\ frame_count < MaxFrames
            /\ r.prev_poc_msb <= MaxWraps * r.max_poc_lsb
            /\ r.prev_poc_msb >= -(MaxWraps * r.max_poc_lsb)
            /\ current_surface' = r.current_surface
            /\ dpb' = r.dpb
            /\ frame_count' = r.frame_count
            /\ prev_poc_lsb' = r.prev_poc_lsb
            /\ prev_poc_msb' = r.prev_poc_msb
            /\ max_poc_lsb' = r.max_poc_lsb
            /\ op' = "decode_frame"
            /\ args' = in
            /\ acq' = r.acq
            /\ pic_params' = r.pic_params
            /\ calls' = r.calls
            /\ result' = r.result
            /\ pre' = Snapshot
            /\ UNCHANGED <<surface_count, poc_ref, bits, worker_vars, gst_vars, upd, input_vars>>

GetNextSurface ==
    \E g \in {get_next_surface(current_surface, dpb, surface_count)} :
        /\ current_surface' = g.cursor
        /\ dpb' = g.dpb
        /\ op' = "get_next_surface"
        /\ args' = [parse_ok |-> FALSE]
        /\ acq' = [called |-> TRUE, dpb |-> dpb, cursor |-> current_surface,
                   surface |-> g.surface, branch |-> g.branch]
        /\ pic_params' = NoPicParams
        /\ calls' = <<>>
        /\ result' = "none"
        /\ pre' = Snapshot
        /\ UNCHANGED <<surface_count, frame_count, prev_poc_lsb, prev_poc_msb, max_poc_lsb,
                       poc_ref, bits, worker_vars, gst_vars, upd, input_vars>>

\* clear_dpb that resets the counters and keeps the DPB entries
clear_dpb_keep_entries(d, fc, pl, pm) ==
    [dpb |-> d, frame_count |-> 0, prev_poc_lsb |-> 0, prev_poc_msb |-> 0]

\* clear_dpb that keeps the POC history
clear_dpb_keep_poc(d, fc, pl, pm) ==
    [dpb |-> <<>>, frame_count |-> 0, prev_poc_lsb |-> pl, prev_poc_msb |-> pm]

\* DxvaDecoder::clear_dpb
clear_dpb(d, fc, pl, pm) ==
    [dpb |-> <<>>, frame_count |-> 0, prev_poc_lsb |-> 0, prev_poc_msb |-> 0]

ClearDpb ==
    \E c \in {clear_dpb(dpb, frame_count, prev_poc_lsb, prev_poc_msb)} :
        /\ dpb' = c.dpb
        /\ prev_poc_lsb' = c.prev_poc_lsb
        /\ prev_poc_msb' = c.prev_poc_msb
        /\ frame_count' = c.frame_count
        /\ op' = "clear_dpb"
        /\ args' = [parse_ok |-> FALSE]
        /\ acq' = NoAcq
        /\ pic_params' = NoPicParams
        /\ calls' = <<>>
        /\ result' = "none"
        /\ pre' = Snapshot
        /\ UNCHANGED <<surface_count, current_surface, max_poc_lsb, poc_ref, bits,
                       worker_vars, gst_vars, upd, input_vars>>

DecodeFrame == DecodeFrameOn(StreamInputs)

Next == DecodeFrame \/ GetNextSurface \/ ClearDpb

Spec == Init /\ [][Next]_vars

(***************************************************************************)
(* The same decoder driven by frames whose hardware submission may fail at *)
(* every step.                                                             *)
(***************************************************************************)
DecodeFrameHw == DecodeFrameOn(HwInputs)

\* a pool sized as in production: more surfaces than DPB entries
InitHw == Init /\ surface_count = dpb_max_size + ExtraSurfaces

NextHw == DecodeFrameHw \/ ClearDpb

SpecHw == InitHw /\ [][NextHw]_vars

(***************************************************************************)
(* Properties of the DPB and of the surface pool.                          *)
(***************************************************************************)
DecodedOk == op = "decode_frame" /\ result = "ok"

\* C1: after every update_dpb, in any sequence of decode_frame, get_next_surface
\* and clear_dpb calls, the DPB holds at most dpb_max_size entries.
C1_DpbBound == Len(dpb) <= dpb_max_size

\* a frame was decoded onto a new surface while the DPB was full: the eviction
\* loop of update_dpb ran and the DPB is full again
C1_Witness ==
    /\ DecodedOk
    /\ Len(pic_params.dpb) = dpb_max_size
    /\ ~in_dpb(pic_params.dpb, acq.surface)
    /\ Len(dpb) = dpb_max_size

\* C2: in every reachable state no two DPB entries have the same surface_index;
\* after a reference frame is decoded the entry appended for it is the only one
\* tracked under its surface.
C2_UniqueSurfaces ==
    /\ \A i, j \in 1 .. Len(dpb) : i # j => dpb[i].surface_index # dpb[j].surface_index
    /\ (DecodedOk /\ args.is_vcl) =>
           /\ Len(dpb) >= 1
           /\ dpb[Len(dpb)].surface_index = acq.surface
           /\ \A i \in 1 .. (Len(dpb) - 1) : dpb[i].surface_index # acq.surface

\* a surface still tracked by the DPB was taken over by a new reference frame
\* (exhausted pool) and the DPB holds several entries
C2_Witness ==
    /\ DecodedOk
    /\ args.is_vcl
    /\ in_dpb(acq.dpb, acq.surface)
    /\ Len(dpb) >= 2

\* every surface of the pool is tracked by DPB d
all_surfaces_in(d) == \A s \in 0 .. (surface_count - 1) : in_dpb(d, s)

\* C3: get_next_surface never returns a surface index that is in the DPB at the
\* time of the call, unless all surface_count surfaces are in the DPB.
C3_NoCollision ==
    acq.called => (in_dpb(acq.dpb, acq.surface) => all_surfaces_in(acq.dpb))

\* the scan skipped a surface that the DPB references and returned a free one
C3_Witness ==
    /\ acq.called
    /\ in_dpb(acq.dpb, acq.cursor)
    /\ ~in_dpb(acq.dpb, acq.surface)
    /\ ~all_surfaces_in(acq.dpb)

\* C4: for every surface_count and DPB content get_next_surface returns an index
\* in 0 .. surface_count - 1 (and leaves the cursor in that range).
C4_ValidIndex ==
    /\ current_surface \in 0 .. (surface_count - 1)
    /\ acq.called => acq.surface \in 0 .. (surface_count - 1)

\* the last surface of the pool was returned and the cursor wrapped to 0
C4_Witness ==
    /\ acq.called
    /\ surface_count > 1
    /\ acq.surface = surface_count - 1
    /\ current_surface = 0

\* C6: an update_dpb call with is_idr = true, from any prior state, leaves at
\* most the current frame in the DPB (present only if is_reference) and
\* prev_poc_lsb = prev_poc_msb = 0.
C6_IdrClear ==
    (DecodedOk /\ args.is_idr) =>
        /\ prev_poc_lsb = 0
        /\ prev_poc_msb = 0
        /\ Len(dpb) = (IF args.is_vcl THEN 1 ELSE 0)
        /\ \A i \in 1 .. Len(dpb) :
               /\ dpb[i].surface_index = acq.surface
               /\ dpb[i].frame_num = frame_count

\* an IDR reference frame was decoded by a decoder whose DPB was full and whose
\* POC history was not zero
C6_Witness ==
    /\ DecodedOk
    /\ args.is_idr
    /\ args.is_vcl
    /\ Len(pre.dpb) = dpb_max_size
    /\ pre.prev_poc_msb # 0
    /\ Len(dpb) = 1

all_invalid(pp) ==
    /\ \A i \in 1 .. REF_PIC_LIST_LEN : pp.ref_pic_list[i] = INVALID
    /\ \A i \in 1 .. REF_PIC_SET_LEN :
           /\ pp.ref_pic_set_st_curr_before[i] = INVALID
           /\ pp.ref_pic_set_st_curr_after[i] = INVALID
           /\ pp.ref_pic_set_lt_curr[i] = INVALID

\* C7: when the first slice is an IDR the DPB is emptied before the picture
\* parameters are built; the parameters of an IDR frame, and of any frame built
\* on an empty DPB, have all 15 ref_pic_list entries and all slots of the three
\* reference sets equal to 0xFF.
C7_IdrNoReferences ==
    (op = "decode_frame" /\ pic_params.built) =>
        /\ args.is_idr => pic_params.dpb = <<>>
        /\ (args.is_idr \/ pic_params.dpb = <<>>) => all_invalid(pic_params.pp)

\* picture parameters were built for an IDR frame by a decoder whose DPB held
\* reference frames when decode_frame was called
C7_Witness ==
    /\ op = "decode_frame"
    /\ pic_params.built
    /\ args.is_idr
    /\ Len(pre.dpb) = dpb_max_size

(***************************************************************************)
(* The POC derivation alone: calculate_full_poc applied to every sequence  *)
(* of (poc_lsb, is_idr) inputs for a fixed max_poc_lsb.                    *)
(***************************************************************************)
\* max_poc_lsb = 1 << log2_max_poc_lsb of the SPS
MaxPocLsbs == {16, 256}

\* H.265 8.3.1: PicOrderCntMsb from the previous picture's LSB and MSB
h265_poc_msb(prev_lsb, prev_msb, lsb, max) ==
    IF lsb < prev_lsb /\ prev_lsb - lsb >= max \div 2
    THEN prev_msb + max
    ELSE IF lsb > prev_lsb /\ lsb - prev_lsb > max \div 2
    THEN prev_msb - max
    ELSE prev_msb

\* the POC that the LSB stands for: the one value congruent to lsb modulo max
\* that lies less than half a range below or at most half a range above the
\* previous picture's POC
nearest_poc(prev_poc, lsb, max) ==
    CHOOSE x \in (prev_poc - max \div 2 + 1) .. (prev_poc + max \div 2) : x % max = lsb

InitPoc ==
    /\ max_poc_lsb \in MaxPocLsbs
    /\ surface_count = 1
    /\ current_surface = 0
    /\ dpb = <<>>
    /\ frame_count = 0
    /\ prev_poc_lsb = 0
    /\ prev_poc_msb = 0
    /\ op = "new"
    /\ args = [parse_ok |-> FALSE]
    /\ acq = NoAcq
    /\ pic_params = NoPicParams
    /\ calls = <<>>
    /\ result = "none"
    /\ pre = Snapshot
    /\ poc_ref = [called |-> FALSE, true_poc |-> 0]
    /\ bits = NoBits
    /\ WorkerIdle
    /\ GstIdle
    /\ UpdIdle
    /\ InputIdle

CalculateFullPoc ==
    \E poc_lsb \in 0 .. (max_poc_lsb - 1), is_idr \in BOOLEAN :
        \E r \in {calculate_full_poc(prev_poc_lsb, prev_poc_msb, poc_lsb, is_idr,
                                     max_poc_lsb)} :
            /\ is_idr => poc_lsb = 0
            /\ r.prev_poc_msb <= MaxPocWraps * max_poc_lsb
            /\ r.prev_poc_msb >= -(MaxPocWraps * max_poc_lsb)
            /\ prev_poc_lsb' = r.prev_poc_lsb
            /\ prev_poc_msb' = r.prev_poc_msb
            /\ op' = "calculate_full_poc"
            /\ poc_ref' = [called |-> TRUE, is_idr |-> is_idr, poc_lsb |-> poc_lsb,
                           full_poc |-> r.full_poc,
                           h265 |-> IF is_idr THEN 0
                                    ELSE h265_poc_msb(prev_poc_lsb, prev_poc_msb, poc_lsb,
                                                      max_poc_lsb) + poc_lsb,
                           true_poc |-> IF is_idr THEN 0
                                        ELSE nearest_poc(poc_ref.true_poc, poc_lsb,
                                                         max_poc_lsb)]
            /\ UNCHANGED <<surface_count, current_surface, dpb, frame_count, max_poc_lsb,
                           args, acq, pic_params, calls, result, pre, bits, worker_vars, gst_vars, upd, input_vars>>

NextPoc == CalculateFullPoc

SpecPoc == InitPoc /\ [][NextPoc]_vars

\* C5: for a fixed max_poc_lsb and every sequence of (poc_lsb, is_idr) inputs the
\* values returned by successive calculate_full_poc calls equal the H.265 8.3.1
\* derivation, also across several wraps: an IDR returns 0 and zeroes the
\* history; otherwise the result is the MSB of 8.3.1 plus poc_lsb, which is the
\* POC nearest to the previous picture's that has this LSB.
C5_PocDerivation ==
    poc_ref.called =>
        /\ poc_ref.full_poc = poc_ref.h265
        /\ poc_ref.full_poc = poc_ref.true_poc
        /\ poc_ref.full_poc = prev_poc_msb + prev_poc_lsb
        /\ poc_ref.is_idr => (poc_ref.full_poc = 0 /\ prev_poc_lsb = 0 /\ prev_poc_msb = 0)
        /\ ~poc_ref.is_idr => prev_poc_lsb = poc_ref.poc_lsb

\* with max_poc_lsb = 256 the LSB has wrapped upward and LSB 4 gives POC 260
C5_Witness ==
    /\ poc_ref.called
    /\ max_poc_lsb = 256
    /\ ~poc_ref.is_idr
    /\ poc_ref.poc_lsb = 4
    /\ prev_poc_msb = 256
    /\ poc_ref.full_poc = 260

(***************************************************************************)
(* The picture-parameter builder alone: build_hevc_pic_params applied to   *)
(* DPBs of reference frames with every order of POCs.                      *)
(***************************************************************************)
BuildPocs == {10, 20, 30}
CurrentPocs == {5, 10, 25, 35}

\* the DPBs of n short-term reference frames on surfaces 0 .. n-1, decoded in
\* this order, with any POCs
BuildDpbs ==
    UNION {{[i \in 1 .. n |-> DpbEntry(i - 1, pocs[i], TRUE, FALSE, i)] :
             pocs \in [1 .. n -> BuildPocs]} : n \in 0 .. MaxBuildDpb}

InitBuild ==
    /\ dpb \in BuildDpbs
    /\ surface_count = 25
    /\ current_surface = Len(dpb) % surface_count
    /\ frame_count = Len(dpb)
    /\ prev_poc_lsb = 0
    /\ prev_poc_msb = 0
    /\ max_poc_lsb = DEFAULT_MAX_POC_LSB
    /\ op = "new"
    /\ args = [parse_ok |-> FALSE]
    /\ acq = NoAcq
    /\ pic_params = NoPicParams
    /\ calls = <<>>
    /\ result = "none"
    /\ pre = Snapshot
    /\ poc_ref = NoPocRef
    /\ bits = NoBits
    /\ WorkerIdle
    /\ GstIdle
    /\ UpdIdle
    /\ InputIdle

\* the part of decode_frame from the surface acquisition to the built parameters
BuildPicParams ==
    \E full_poc \in CurrentPocs, is_idr \in BOOLEAN :
        \E g \in {get_next_surface(current_surface, dpb, surface_count)} :
            /\ op' = "build_hevc_pic_params"
            /\ args' = [parse_ok |-> TRUE, is_idr |-> is_idr, full_poc |-> full_poc]
            /\ pic_params' =
                   [built |-> TRUE, dpb |-> g.dpb, surface_idx |-> g.surface,
                    pp |-> build_hevc_pic_params(g.dpb, is_idr, g.surface, full_poc)]
            /\ UNCHANGED <<surface_count, current_surface, dpb, frame_count, prev_poc_lsb,
                           prev_poc_msb, max_poc_lsb, acq, calls, result, pre, poc_ref,
                           bits, worker_vars, gst_vars, upd, input_vars>>

NextBuild == BuildPicParams

SpecBuild == InitBuild /\ [][NextBuild]_vars

\* positions of the DPB entries with POC below / above the current POC
before_entries(d, cur) == {i \in 1 .. Len(d) : d[i].poc < cur}
after_entries(d, cur) == {i \in 1 .. Len(d) : d[i].poc > cur}

\* list position k holds DPB entry d[i] as a short-term reference
lists_entry(pp, k, e) ==
    /\ pp.ref_pic_list[k] = pic_entry(e.surface_index, FALSE)
    /\ pp.pic_order_cnt_val_list[k] = e.poc

\* C8: for a non-IDR frame the reference list consists first of the short-term
\* entries with POC below the current POC in descending POC order, then of those
\* with POC above it in ascending order; an entry with the current POC is in
\* neither group (here no DPB exceeds the 15 list entries).
C8_RefListOrder ==
    (op = "build_hevc_pic_params" /\ ~args.is_idr) =>
        LET pp == pic_params.pp
            d == pic_params.dpb
            cur == pp.curr_pic_order_cnt_val
            B == before_entries(d, cur)
            A == after_entries(d, cur)
            nb == Cardinality(B)
            na == Cardinality(A)
        IN  /\ \A k \in 1 .. nb : \E i \in B : lists_entry(pp, k, d[i])
            /\ \A i \in B : \E k \in 1 .. nb : lists_entry(pp, k, d[i])
            /\ \A k \in 1 .. (nb - 1) :
                   pp.pic_order_cnt_val_list[k] >= pp.pic_order_cnt_val_list[k + 1]
            /\ \A k \in (nb + 1) .. (nb + na) : \E i \in A : lists_entry(pp, k, d[i])
            /\ \A i \in A : \E k \in (nb + 1) .. (nb + na) : lists_entry(pp, k, d[i])
            /\ \A k \in (nb + 1) .. (nb + na - 1) :
                   pp.pic_order_cnt_val_list[k] <= pp.pic_order_cnt_val_list[k + 1]
            /\ \A k \in (nb + na + 1) .. REF_PIC_LIST_LEN : pp.ref_pic_list[k] = INVALID
            /\ \A k \in 1 .. REF_PIC_SET_LEN :
                   /\ pp.ref_pic_set_st_curr_before[k] = (IF k <= nb THEN k - 1 ELSE INVALID)
                   /\ pp.ref_pic_set_st_curr_after[k] =
                          (IF k <= na THEN nb + k - 1 ELSE INVALID)

\* DPB POCs 10, 20, 30 and current POC 25: before = 20, 10 and after = 30
C8_Witness ==
    /\ op = "build_hevc_pic_params"
    /\ ~args.is_idr
    /\ Len(pic_params.dpb) = 3
    /\ pic_params.dpb[1].poc = 10
    /\ pic_params.dpb[2].poc = 20
    /\ pic_params.dpb[3].poc = 30
    /\ pic_params.pp.curr_pic_order_cnt_val = 25
    /\ SubSeq(pic_params.pp.pic_order_cnt_val_list, 1, 3) = <<20, 10, 30>>
    /\ SubSeq(pic_params.pp.ref_pic_list, 1, 4) = <<1, 0, 2, INVALID>>
    /\ SubSeq(pic_params.pp.ref_pic_set_st_curr_before, 1, 3) = <<0, 1, INVALID>>
    /\ SubSeq(pic_params.pp.ref_pic_set_st_curr_after, 1, 2) = <<2, INVALID>>

(***************************************************************************)
(* The bitstream framing alone: build_annex_b_bitstream_and_slices applied *)
(* to lists of slice NAL units under every ConfigBitstreamRaw.             *)
(***************************************************************************)
START_CODE == <<0, 0, 1>>

DxvaHevcSliceShort(position, size) ==
    [bs_nal_unit_data_location |-> position, slice_bytes_in_buffer |-> size,
     w_bad_slice_chopping |-> 0]

\* slice_nals.iter().map(|nal| start_code_len + nal.data.len()).sum()
RECURSIVE total_size(_, _)
total_size(slice_nals, start_code_len) ==
    IF slice_nals = <<>>
    THEN 0
    ELSE start_code_len + Len(Head(slice_nals).data)
         + total_size(Tail(slice_nals), start_code_len)

\* (total_size + 127) & !127
align_up(n) == ((n + (BITSTREAM_ALIGN - 1)) \div BITSTREAM_ALIGN) * BITSTREAM_ALIGN

\* the loop over the slice NAL units recording each position one byte early
\* from the second slice on
RECURSIVE append_slices_overlapping(_, _, _, _)
append_slices_overlapping(slice_nals, use_start_codes, bitstream, slice_controls) ==
    IF slice_nals = <<>>
    THEN [bitstream |-> bitstream, slice_controls |-> slice_controls]
    ELSE LET nal == Head(slice_nals)
             position == IF bitstream = <<>> THEN 0 ELSE Len(bitstream) - 1
             start_code == IF use_start_codes THEN START_CODE ELSE <<>>
             slice_size == Len(start_code) + Len(nal.data)
         IN  append_slices_overlapping(Tail(slice_nals), use_start_codes,
                 bitstream \o start_code \o nal.data,
                 Append(slice_controls, DxvaHevcSliceShort(position, slice_size)))

\* the loop over the slice NAL units: each appends its start code (if any) and
\* its data to the bitstream and records a slice control
RECURSIVE append_slices(_, _, _, _)
append_slices(slice_nals, use_start_codes, bitstream, slice_controls) ==
    IF slice_nals = <<>>
    THEN [bitstream |-> bitstream, slice_controls |-> slice_controls]
    ELSE LET nal == Head(slice_nals)
             position == Len(bitstream)
             start_code == IF use_start_codes THEN START_CODE ELSE <<>>
             slice_size == Len(start_code) + Len(nal.data)
         IN  append_slices(Tail(slice_nals), use_start_codes,
                           bitstream \o start_code \o nal.data,
                           Append(slice_controls, DxvaHevcSliceShort(position, slice_size)))

\* while bitstream.len() < padded_size { bitstream.push(0) }
pad_bitstream(bitstream, padded_size) ==
    bitstream \o [i \in 1 .. (padded_size - Len(bitstream)) |-> 0]

\* the padding left out of the slice controls
pad_last_slice_skipped(slice_controls, padding) == slice_controls

\* "Update last slice to include padding bytes"
pad_last_slice(slice_controls, padding) ==
    IF slice_controls = <<>>
    THEN slice_controls
    ELSE [slice_controls EXCEPT ![Len(slice_controls)].slice_bytes_in_buffer = @ + padding]

\* DxvaDecoder::build_annex_b_bitstream_and_slices
build_annex_b_bitstream_and_slices(config_bitstream_raw, slice_nals) ==
    LET use_start_codes == config_bitstream_raw = 1
        start_code_len == IF use_start_codes THEN Len(START_CODE) ELSE 0
        total == total_size(slice_nals, start_code_len)
        padded_size == align_up(total)
        body == append_slices(slice_nals, use_start_codes, <<>>, <<>>)
    IN  [bitstream |-> pad_bitstream(body.bitstream, padded_size),
         slice_controls |-> pad_last_slice(body.slice_controls, padded_size - total)]

\* ConfigBitstreamRaw of the configuration the decoder was created with
ConfigBitstreamRaws == {0, 1, 2}

\* payload lengths around the alignment boundary, with and without start code
NalLens == {2, 125, 128, 131}

\* the i-th slice NAL unit of a frame, its payload marked with non-zero bytes
NalUnit(i, len) == [data |-> [j \in 1 .. len |-> 64 + i]]

SliceNalLists ==
    UNION {{[i \in 1 .. n |-> NalUnit(i, lens[i])] : lens \in [1 .. n -> NalLens]} :
             n \in 0 .. MaxNals}

InitBits ==
    /\ surface_count = 25
    /\ current_surface = 0
    /\ dpb = <<>>
    /\ frame_count = 0
    /\ prev_poc_lsb = 0
    /\ prev_poc_msb = 0
    /\ max_poc_lsb = DEFAULT_MAX_POC_LSB
    /\ op = "new"
    /\ args = [parse_ok |-> FALSE]
    /\ acq = NoAcq
    /\ pic_params = NoPicParams
    /\ calls = <<>>
    /\ result = "none"
    /\ pre = Snapshot
    /\ poc_ref = NoPocRef
    /\ \E c \in ConfigBitstreamRaws, nals \in SliceNalLists :
           bits = [built |-> FALSE, config_bitstream_raw |-> c, slice_nals |-> nals]
    /\ WorkerIdle
    /\ GstIdle
    /\ UpdIdle
    /\ InputIdle

BuildBitstream ==
    /\ ~bits.built
    /\ \E r \in {build_annex_b_bitstream_and_slices(bits.config_bitstream_raw,
                                                     bits.slice_nals)} :
           bits' = [built |-> TRUE, config_bitstream_raw |-> bits.config_bitstream_raw,
                    slice_nals |-> bits.slice_nals, bitstream |-> r.bitstream,
                    slice_controls |-> r.slice_controls]
    /\ op' = "build_annex_b_bitstream_and_slices"
    /\ UNCHANGED <<surface_count, current_surface, dpb, frame_count, prev_poc_lsb,
                   prev_poc_msb, max_poc_lsb, args, acq, pic_params, calls, result, pre,
                   poc_ref, worker_vars, gst_vars, upd, input_vars>>

NextBits == BuildBitstream

SpecBits == InitBits /\ [][NextBits]_vars

RECURSIVE sum_slice_bytes(_)
sum_slice_bytes(slice_controls) ==
    IF slice_controls = <<>>
    THEN 0
    ELSE Head(slice_controls).slice_bytes_in_buffer + sum_slice_bytes(Tail(slice_controls))

\* bytes of the bitstream that belong to slice i: its start code, if any, and its payload
framed_len(i) ==
    (IF bits.config_bitstream_raw = 1 THEN 3 ELSE 0) + Len(bits.slice_nals[i].data)

\* C9: for every list of slice NAL units and every framing mode the returned
\* buffer has a length that is a multiple of 128, and the slice_bytes_in_buffer
\* of the slice controls add up to that length, every slice but the last
\* reporting exactly its own bytes.
C9_PaddedBitstream ==
    bits.built =>
        /\ Len(bits.bitstream) % 128 = 0
        /\ sum_slice_bytes(bits.slice_controls) = Len(bits.bitstream)
        /\ Len(bits.slice_controls) = Len(bits.slice_nals)
        /\ \A i \in 1 .. (Len(bits.slice_controls) - 1) :
               bits.slice_controls[i].slice_bytes_in_buffer = framed_len(i)

\* two slices of 2 and 131 bytes with start codes: 139 bytes padded to 256, the
\* 117 padding bytes counted in the last slice
C9_Witness ==
    /\ bits.built
    /\ bits.config_bitstream_raw = 1
    /\ Len(bits.slice_nals) = 2
    /\ Len(bits.slice_nals[1].data) = 2
    /\ Len(bits.slice_nals[2].data) = 131
    /\ Len(bits.bitstream) = 256
    /\ bits.slice_controls[1].slice_bytes_in_buffer = 5
    /\ bits.slice_controls[2].slice_bytes_in_buffer = 251
    /\ bits.slice_controls[2].bs_nal_unit_data_location = 5

(***************************************************************************)
(* The order of the hardware calls within one decode_frame.                *)
(***************************************************************************)
\* the stage of the frame a recorded call belongs to
stage_of(c) == IF c.buf = "-" THEN c.call ELSE c.buf

stage_rank(s) ==
    CASE s = "DecoderBeginFrame" -> 1
      [] s = "PictureParameters" -> 2
      [] s = "InverseQuantizationMatrix" -> 3
      [] s = "SliceControl" -> 4
      [] s = "Bitstream" -> 5
      [] s = "SubmitDecoderBuffers" -> 6
      [] s = "DecoderEndFrame" -> 7
      [] s = "Flush" -> 8
      [] s = "update_dpb" -> 9
      [] OTHER -> 0

\* the stages a frame with these inputs has to go through
required_stages(in) ==
    {"DecoderBeginFrame", "PictureParameters", "Bitstream", "SubmitDecoderBuffers",
     "DecoderEndFrame", "Flush", "update_dpb"}
    \cup (IF in.scaling_list_enabled THEN {"InverseQuantizationMatrix"} ELSE {})
    \cup (IF in.n_slices > 0 THEN {"SliceControl"} ELSE {})

stages_reached == {stage_of(calls[i]) : i \in 1 .. Len(calls)}

\* C10: within one decode_frame the calls occur in the order DecoderBeginFrame,
\* PictureParameters, InverseQuantizationMatrix (iff the SPS enables scaling
\* lists), SliceControl (if there are slice controls), Bitstream,
\* SubmitDecoderBuffers, DecoderEndFrame, Flush, and update_dpb only after the
\* Flush: no stage is reached before all the required earlier ones, none is
\* repeated, and a successful frame goes through all of them.
C10_HardwareCallOrder ==
    (op = "decode_frame" /\ args.parse_ok) =>
        /\ \A i \in 1 .. Len(calls) : stage_rank(stage_of(calls[i])) > 0
        /\ \A i, j \in 1 .. Len(calls) :
               i < j =>
                   /\ calls[i] # calls[j]
                   /\ stage_rank(stage_of(calls[i])) <= stage_rank(stage_of(calls[j]))
                   /\ stage_of(calls[i]) = stage_of(calls[j]) =>
                          /\ calls[i].call = "GetDecoderBuffer"
                          /\ calls[j].call = "ReleaseDecoderBuffer"
        /\ stages_reached \subseteq required_stages(args)
        /\ \A s \in stages_reached, r \in required_stages(args) :
               stage_rank(r) < stage_rank(s) => r \in stages_reached
        /\ (result = "ok") = ("update_dpb" \in stages_reached)
        /\ result = "ok" => stages_reached = required_stages(args)
        /\ result # "ok" => dpb = (IF args.is_idr /\ args.n_slices > 0 THEN <<>> ELSE pre.dpb)

\* a frame with scaling lists and two slices that decodes: all nine stages
C10_Witness ==
    /\ op = "decode_frame"
    /\ result = "ok"
    /\ args.scaling_list_enabled
    /\ args.n_slices = 2
    /\ Len(calls) = 13
    /\ calls[5].buf = "InverseQuantizationMatrix"
    /\ calls[7].buf = "SliceControl"
    /\ calls[9].buf = "Bitstream"
    /\ calls[12].call = "Flush"
    /\ calls[13].call = "update_dpb"


(***************************************************************************)
(* Hardware failures are surfaced.                                         *)
(***************************************************************************)
\* the hardware step named by args.fail is one the frame goes through
failure_hit ==
    /\ op = "decode_frame"
    /\ args.parse_ok
    /\ args.n_slices > 0
    /\ args.fail # NoFail
    /\ args.fail.at = "InverseQuantizationMatrix" => args.scaling_list_enabled
    /\ args.fail.at = "SliceControl" => args.n_slices > 0

\* C11: if DecoderBeginFrame, a buffer submission (GetDecoderBuffer error, null
\* region, payload larger than the buffer, ReleaseDecoderBuffer error),
\* SubmitDecoderBuffers or DecoderEndFrame fails, decode_frame returns an error
\* and produces no decoded frame: nothing is called after the failing step, and
\* the frame is not entered in the DPB nor counted.
C11_FailureSurfaced ==
    failure_hit =>
        /\ result = "err"
        /\ calls # <<>>
        /\ stage_of(calls[Len(calls)]) = args.fail.at
        /\ \A i \in 1 .. Len(calls) : calls[i].call # "update_dpb"
        /\ frame_count = pre.frame_count
        /\ dpb = (IF args.is_idr THEN <<>> ELSE pre.dpb)

\* ReleaseDecoderBuffer failed for the bitstream buffer, after every earlier
\* buffer was accepted
C11_Witness ==
    /\ failure_hit
    /\ args.fail = [at |-> "Bitstream", kind |-> "ReleaseDecoderBuffer"]
    /\ args.scaling_list_enabled
    /\ result = "err"
    /\ Len(calls) = 9


(***************************************************************************)
(* The first IDR frame of a fresh decoder.                                 *)
(***************************************************************************)
\* decode_frame was called on a decoder in the state DxvaDecoder::new leaves
\* and decoded an IDR frame
fresh_idr_decoded ==
    /\ DecodedOk
    /\ args.is_idr
    /\ acq.cursor = 0
    /\ pre.dpb = <<>>
    /\ pre.frame_count = 0
    /\ pre.prev_poc_lsb = 0
    /\ pre.prev_poc_msb = 0

\* C12 as stated: on a fresh decoder a successfully decoded IDR frame acquires
\* surface 0, has full POC 0 and leaves the DPB empty.
C12_FreshIdrDpbEmpty ==
    fresh_idr_decoded =>
        /\ acq.surface = 0
        /\ pic_params.pp.curr_pic_order_cnt_val = 0
        /\ dpb = <<>>

\* C12, amended: on a fresh decoder a successfully decoded IDR frame acquires
\* surface 0 and has full POC 0; afterwards the DPB holds exactly that frame
\* (surface 0, POC 0, frame_num 1) when its NAL type is VCL, and is empty only
\* when it is not.
C12_FreshIdr ==
    fresh_idr_decoded =>
        /\ acq.surface = 0
        /\ pic_params.pp.curr_pic_order_cnt_val = 0
        /\ pic_params.pp.curr_pic = pic_entry(0, FALSE)
        /\ frame_count = 1
        /\ dpb = (IF args.is_vcl
                  THEN <<[surface_index |-> 0, poc |-> 0, is_reference |-> TRUE,
                          is_long_term |-> FALSE, frame_num |-> 1]>>
                  ELSE <<>>)

\* the IDR frame of a fresh decoder is in the DPB after the call
C12_Witness ==
    /\ fresh_idr_decoded
    /\ args.is_vcl
    /\ args.poc_lsb = 0
    /\ Len(dpb) = 1
    /\ dpb[1].surface_index = 0


(***************************************************************************)
(* The decode loops: the native DXVA worker thread (native_video.rs), the  *)
(* Linux GStreamer worker thread and the synchronous GStreamerDecoder-     *)
(* Wrapper (video.rs), with their command channel, their stats channel and *)
(* the shared last-frame slot.                                             *)
(***************************************************************************)
DecodeStats(frame_produced, needs_keyframe) ==
    [sent |-> TRUE, frame_produced |-> frame_produced, needs_keyframe |-> needs_keyframe]

\* stats_tx.try_send(msg): the message is dropped when the channel is full
try_send(channel, msg) ==
    IF Len(channel) < StatsCapacity THEN Append(channel, msg) ELSE channel

\* cmd_rx.recv() taking the newest command instead of the oldest
recv_newest(queue) ==
    [cmd |-> queue[Len(queue)], rest |-> SubSeq(queue, 1, Len(queue) - 1)]

\* cmd_rx.recv(): the oldest command of the channel
recv(queue) == [cmd |-> Head(queue), rest |-> Tail(queue)]

\* the counters as far as the loops test them: frames_decoded only against
\* FRAMES_TO_SKIP; consecutive_failures against the threshold of the loop
\* (native and Linux worker) and, in the wrapper, modulo RETRIGGER_PERIOD
fold_frames(n) == IF n > FRAMES_TO_SKIP + 1 THEN FRAMES_TO_SKIP + 1 ELSE n
fold_period(n) == IF n > MaxFailures THEN n - RETRIGGER_PERIOD ELSE n
fold_failures(kind, n) ==
    IF kind = "native"
    THEN IF n > NATIVE_KEYFRAME_REQUEST_THRESHOLD + 1
         THEN NATIVE_KEYFRAME_REQUEST_THRESHOLD + 1 ELSE n
    ELSE IF kind = "linux"
    THEN IF n > LINUX_KEYFRAME_REQUEST_THRESHOLD + 1
         THEN LINUX_KEYFRAME_REQUEST_THRESHOLD + 1 ELSE n
    ELSE fold_period(n)

\* the mutable state of a decode loop
LoopState(ready, failures, frames, channel, slot) ==
    [decoder_ready |-> ready, consecutive_failures |-> failures,
     frames_decoded |-> frames, stats_channel |-> channel, shared_frame |-> slot]

\* the result of handling one command: the new state, what happened, the stats
\* message built (sent or dropped) and whether the frame was written
Handled(st, outcome, stats, wrote) ==
    [st |-> st, outcome |-> outcome, stats |-> stats, wrote |-> wrote]

\* native worker, NativeDecoderCommand::DecodeAsync.  in.has_dims: the parser
\* knows the dimensions; in.dims_changed: they differ from the decoder's;
\* in.create_ok: DxvaDecoder::new succeeds; in.decode_ok: decode_frame returns
\* Ok; in.copy_ok: convert_decoded_frame returns Some
native_decode_async(st, id, in) ==
    LET need_create == in.has_dims /\ (~st.decoder_ready \/ in.dims_changed)
        ready == st.decoder_ready \/ need_create
    IN  IF need_create /\ ~in.create_ok
        THEN \* "Failed to create DXVA decoder": stats and `continue`
             LET stats == DecodeStats(FALSE, TRUE)
             IN  Handled([st EXCEPT !.stats_channel = try_send(@, stats)],
                         "create_failed", stats, FALSE)
        ELSE IF ready
        THEN IF in.decode_ok
             THEN LET stats == DecodeStats(TRUE, FALSE)
                  IN  Handled(LoopState(TRUE, 0, st.frames_decoded + 1,
                                        try_send(st.stats_channel, stats),
                                        IF in.copy_ok THEN id ELSE st.shared_frame),
                              "frame", stats, in.copy_ok)
             ELSE LET failures == st.consecutive_failures + 1
                      stats == DecodeStats(FALSE,
                                           failures >= NATIVE_KEYFRAME_REQUEST_THRESHOLD)
                  IN  Handled(LoopState(TRUE, failures, st.frames_decoded,
                                        try_send(st.stats_channel, stats), st.shared_frame),
                              "err", stats, FALSE)
        ELSE \* "Decoder not ready yet (waiting for SPS)"
             LET stats == DecodeStats(FALSE, FALSE)
             IN  Handled(LoopState(FALSE, st.consecutive_failures + 1, st.frames_decoded,
                                   try_send(st.stats_channel, stats), st.shared_frame),
                         "not_ready", stats, FALSE)

\* Linux worker, DecoderCommand::DecodeAsync; res is decoder.decode(): "frame"
\* for Ok(Some), "none" for Ok(None), "err" for Err
linux_decode_async(st, id, res) ==
    LET frame_produced == res = "frame"
        failures == IF frame_produced THEN 0 ELSE st.consecutive_failures + 1
        needs_keyframe == ~frame_produced /\ failures = LINUX_KEYFRAME_REQUEST_THRESHOLD
        frames == IF frame_produced THEN st.frames_decoded + 1 ELSE st.frames_decoded
        wrote == frame_produced /\ frames > FRAMES_TO_SKIP
        stats == DecodeStats(frame_produced, needs_keyframe)
    IN  Handled(LoopState(st.decoder_ready, failures, frames,
                          try_send(st.stats_channel, stats),
                          IF wrote THEN id ELSE st.shared_frame),
                res, stats, wrote)

\* Linux worker, DecoderCommand::Decode (blocking mode): the result goes to the
\* frame channel; no counter, stats message or shared frame is touched
linux_decode(st, res) == Handled(st, res, NoStats, FALSE)

\* GStreamerDecoderWrapper::decode_async
wrapper_decode_async(st, id, res) ==
    IF res = "frame"
    THEN LET stats == DecodeStats(TRUE, FALSE)
         IN  Handled(LoopState(st.decoder_ready, 0, st.frames_decoded + 1,
                               try_send(st.stats_channel, stats), id),
                     res, stats, TRUE)
    ELSE LET failures == st.consecutive_failures + 1
             needs_keyframe ==
                 IF res = "none"
                 THEN \/ failures = WRAPPER_KEYFRAME_REQUEST_THRESHOLD
                      \/ /\ failures > WRAPPER_KEYFRAME_REQUEST_THRESHOLD
                         /\ failures % RETRIGGER_PERIOD = 0
                 ELSE failures >= WRAPPER_KEYFRAME_REQUEST_THRESHOLD
             stats == DecodeStats(FALSE, needs_keyframe)
         IN  Handled(LoopState(st.decoder_ready, failures, st.frames_decoded,
                               try_send(st.stats_channel, stats), st.shared_frame),
                     res, stats, FALSE)

\* what the parser and the hardware can answer to one DecodeAsync of the native worker
NativeInputs ==
    {in \in [has_dims : BOOLEAN, dims_changed : BOOLEAN, create_ok : BOOLEAN,
             decode_ok : BOOLEAN, copy_ok : BOOLEAN] :
        /\ in.dims_changed => in.has_dims
        /\ ~in.decode_ok => in.copy_ok}

\* results of GStreamerDecoder::decode
DecodeResults == {"frame", "none", "err"}

DecodeAsyncCommand(id) == [type |-> "DecodeAsync", id |-> id]
DecodeCommand == [type |-> "Decode", id |-> 0]
StopCommand == [type |-> "Stop", id |-> 0]


\* a decoder that no decode loop of this model looks into
DecoderUnused ==
    /\ surface_count = 25
    /\ current_surface = 0
    /\ dpb = <<>>
    /\ frame_count = 0
    /\ prev_poc_lsb = 0
    /\ prev_poc_msb = 0
    /\ max_poc_lsb = DEFAULT_MAX_POC_LSB
    /\ op = "new"
    /\ args = [parse_ok |-> FALSE]
    /\ acq = NoAcq
    /\ pic_params = NoPicParams
    /\ calls = <<>>
    /\ result = "none"
    /\ pre = Snapshot
    /\ poc_ref = NoPocRef
    /\ bits = NoBits

\* new_async: empty channels, no decoder yet (native), counters at 0
LoopStarted ==
    /\ cmd_queue = <<>>
    /\ handle_dropped = FALSE
    /\ worker_exited = FALSE
    /\ decoder_ready = FALSE
    /\ consecutive_failures = 0
    /\ frames_decoded = 0
    /\ stats_channel = <<>>
    /\ shared_frame = 0
    /\ last = [cmd |-> NoCommand, outcome |-> "none", stats |-> NoStats, wrote |-> FALSE]
    /\ hist = NoHistory

InitWorker ==
    /\ DecoderUnused
    /\ GstIdle
    /\ UpdIdle
    /\ InputIdle
    /\ loop_kind \in {"native", "linux", "wrapper"}
    /\ LoopStarted

CurrentLoopState ==
    LoopState(decoder_ready, consecutive_failures, frames_decoded, stats_channel,
              shared_frame)

\* the caller is inside the blocking VideoDecoder::decode
caller_blocked == \E i \in 1 .. Len(cmd_queue) : cmd_queue[i].type = "Decode"

\* the loop state after command cmd was handled with result h; the run of
\* failed calls is recorded when tracked
HandleCommand(cmd, h, tracked) ==
    /\ decoder_ready' = h.st.decoder_ready
    /\ consecutive_failures' = fold_failures(loop_kind, h.st.consecutive_failures)
    /\ frames_decoded' = fold_frames(h.st.frames_decoded)
    /\ stats_channel' = h.st.stats_channel
    /\ shared_frame' = h.st.shared_frame
    /\ last' = [cmd |-> cmd, outcome |-> h.outcome, stats |-> h.stats, wrote |-> h.wrote]
    /\ hist' = [hist EXCEPT
                  !.handled = IF cmd.id > 0 THEN @ + 1 ELSE @,
                  !.run = IF ~tracked \/ cmd.type # "DecodeAsync" THEN @
                          ELSE IF h.outcome = "frame" THEN 0
                          ELSE fold_period(@ + 1),
                  !.prev_written = IF h.wrote THEN shared_frame ELSE @,
                  !.kf_received = IF cmd.type = "DecodeAsync" /\ h.outcome = "frame"
                                  THEN FALSE ELSE @]

\* Stop handled like any other command: the loop goes on (continue for break)
HandleStop_continue(cmd) ==
    /\ worker_exited' = FALSE
    /\ last' = [cmd |-> cmd, outcome |-> "stopped", stats |-> NoStats, wrote |-> FALSE]
    /\ UNCHANGED <<decoder_ready, consecutive_failures, frames_decoded, stats_channel,
                   shared_frame, hist>>

\* NativeDecoderCommand::Stop / DecoderCommand::Stop: break
HandleStop(cmd) ==
    /\ worker_exited' = TRUE
    /\ last' = [cmd |-> cmd, outcome |-> "stopped", stats |-> NoStats, wrote |-> FALSE]
    /\ UNCHANGED <<decoder_ready, consecutive_failures, frames_decoded, stats_channel,
                   shared_frame, hist>>

\* NativeVideoDecoder::decode_async / VideoDecoder::decode_async: the command is
\* sent to the worker; commands are numbered in the order they are sent
DecodeAsyncCall ==
    /\ loop_kind \in {"native", "linux"}
    /\ ~handle_dropped
    /\ ~caller_blocked
    /\ Len(cmd_queue) < MaxQueue
    /\ hist.enqueued < MaxCommands
    /\ cmd_queue' = Append(cmd_queue, DecodeAsyncCommand(hist.enqueued + 1))
    /\ hist' = [hist EXCEPT !.enqueued = @ + 1]
    /\ UNCHANGED <<decoder_vars, gst_vars, upd, input_vars, loop_kind, handle_dropped, worker_exited, decoder_ready,
                   consecutive_failures, frames_decoded, stats_channel, shared_frame,
                   last>>

\* VideoDecoder::decode (blocking mode of the Linux decoder)
DecodeCall ==
    /\ loop_kind = "linux"
    /\ ~handle_dropped
    /\ ~caller_blocked
    /\ Len(cmd_queue) < MaxQueue
    /\ cmd_queue' = Append(cmd_queue, DecodeCommand)
    /\ UNCHANGED <<decoder_vars, gst_vars, upd, input_vars, loop_kind, handle_dropped, worker_exited, decoder_ready,
                   consecutive_failures, frames_decoded, stats_channel, shared_frame,
                   last, hist>>

\* Drop for NativeVideoDecoder / VideoDecoder: Stop is sent and the sender is gone
DropHandle ==
    /\ loop_kind \in {"native", "linux"}
    /\ ~handle_dropped
    /\ ~caller_blocked
    /\ cmd_queue' = Append(cmd_queue, StopCommand)
    /\ handle_dropped' = TRUE
    /\ UNCHANGED <<decoder_vars, gst_vars, upd, input_vars, loop_kind, worker_exited, decoder_ready,
                   consecutive_failures, frames_decoded, stats_channel, shared_frame,
                   last, hist>>

\* one iteration of the receive loop of the native DXVA worker
NativeWorkerStep ==
    /\ loop_kind = "native"
    /\ ~worker_exited
    /\ cmd_queue # <<>>
    /\ \E r \in {recv(cmd_queue)} :
           /\ cmd_queue' = r.rest
           /\ IF r.cmd.type = "Stop"
              THEN HandleStop(r.cmd)
              ELSE /\ \E in \in NativeInputs :
                          HandleCommand(r.cmd,
                                        native_decode_async(CurrentLoopState, r.cmd.id, in),
                                        r.cmd.id > 0)
                   /\ UNCHANGED worker_exited
    /\ UNCHANGED <<decoder_vars, gst_vars, upd, input_vars, loop_kind, handle_dropped>>

\* one iteration of the receive loop of the Linux GStreamer worker
LinuxWorkerStep ==
    /\ loop_kind = "linux"
    /\ ~worker_exited
    /\ cmd_queue # <<>>
    /\ \E r \in {recv(cmd_queue)} :
           /\ cmd_queue' = r.rest
           /\ IF r.cmd.type = "Stop"
              THEN HandleStop(r.cmd)
              ELSE /\ \E res \in DecodeResults :
                          HandleCommand(r.cmd,
                                        IF r.cmd.type = "Decode"
                                        THEN linux_decode(CurrentLoopState, res)
                                        ELSE linux_decode_async(CurrentLoopState,
                                                                r.cmd.id, res),
                                        r.cmd.id > 0)
                   /\ UNCHANGED worker_exited
    /\ UNCHANGED <<decoder_vars, gst_vars, upd, input_vars, loop_kind, handle_dropped>>

\* UnifiedVideoDecoder::decode_async on the GStreamer wrapper: decoded in the caller
WrapperDecodeAsync ==
    /\ loop_kind = "wrapper"
    /\ \E res \in DecodeResults :
           HandleCommand(DecodeAsyncCommand(0),
                         wrapper_decode_async(CurrentLoopState, 0, res), TRUE)
    /\ UNCHANGED <<decoder_vars, gst_vars, upd, input_vars, loop_kind, cmd_queue, handle_dropped, worker_exited>>

\* the stats consumer takes the oldest message of the stats channel
DrainStats ==
    /\ stats_channel # <<>>
    /\ stats_channel' = Tail(stats_channel)
    /\ hist' = [hist EXCEPT !.kf_received = @ \/ Head(stats_channel).needs_keyframe]
    /\ UNCHANGED <<decoder_vars, gst_vars, upd, input_vars, loop_kind, cmd_queue, handle_dropped, worker_exited,
                   decoder_ready, consecutive_failures, frames_decoded, shared_frame,
                   last>>

NextWorker ==
    \/ DecodeAsyncCall
    \/ DecodeCall
    \/ DropHandle
    \/ NativeWorkerStep
    \/ LinuxWorkerStep
    \/ WrapperDecodeAsync
    \/ DrainStats

\* the worker threads are scheduled: a command waiting in the channel is
\* eventually received (each decode call returns)
SpecWorker ==
    /\ InitWorker
    /\ [][NextWorker]_vars
    /\ WF_vars(NativeWorkerStep)
    /\ WF_vars(LinuxWorkerStep)


(***************************************************************************)
(* Keyframe requests of the decode loops.                                  *)
(***************************************************************************)
keyframe_threshold ==
    IF loop_kind = "linux" THEN LINUX_KEYFRAME_REQUEST_THRESHOLD
    ELSE IF loop_kind = "native" THEN NATIVE_KEYFRAME_REQUEST_THRESHOLD
    ELSE WRAPPER_KEYFRAME_REQUEST_THRESHOLD

\* the last command handled was a DecodeAsync that produced no frame
decode_failed == last.cmd.type = "DecodeAsync" /\ last.outcome # "frame"

\* C13 as stated: in a run of failed decode calls needs_keyframe = true is
\* reported on the call at which the number of consecutive failures reaches
\* the threshold, and on no later failure of the run except every 20th.
C13_KeyframeOncePerCrossing ==
    decode_failed =>
        /\ hist.run = keyframe_threshold => last.stats.needs_keyframe
        /\ last.stats.needs_keyframe =>
               \/ hist.run = keyframe_threshold
               \/ hist.run > keyframe_threshold /\ hist.run % RETRIGGER_PERIOD = 0

\* C14 as stated: needs_keyframe = true is never reported before threshold
\* consecutive decode calls have failed since the last frame, and a call that
\* produces a frame resets the count and reports needs_keyframe = false.
C14_KeyframeOnlyAfterThreshold ==
    /\ (last.stats.sent /\ last.stats.needs_keyframe) => hist.run >= keyframe_threshold
    /\ (last.cmd.type = "DecodeAsync" /\ last.outcome = "frame") =>
           /\ consecutive_failures = 0
           /\ last.stats.frame_produced
           /\ ~last.stats.needs_keyframe


(***************************************************************************)
(* Order of the commands and of the frames; shutdown.                      *)
(***************************************************************************)
\* C16: the worker handles the DecodeAsync commands in the order they were
\* enqueued (the k-th command handled is the k-th enqueued, the commands still
\* waiting are later ones), and the frames are written to the shared last-frame
\* slot in that order: the frame written last belongs to a later command than
\* the frame written before it.
C16_FrameOrder ==
    loop_kind \in {"native", "linux"} =>
        /\ last.cmd.type = "DecodeAsync" => last.cmd.id = hist.handled
        /\ \A i \in 1 .. Len(cmd_queue) :
               cmd_queue[i].type = "DecodeAsync" => cmd_queue[i].id > hist.handled
        /\ \A i, j \in 1 .. Len(cmd_queue) :
               (i < j /\ cmd_queue[i].type = "DecodeAsync"
                      /\ cmd_queue[j].type = "DecodeAsync") =>
                   cmd_queue[i].id < cmd_queue[j].id
        /\ shared_frame <= hist.handled
        /\ shared_frame > 0 => hist.prev_written < shared_frame
        /\ last.wrote => shared_frame = last.cmd.id

\* the frame of command 3 replaced the frame of command 1 while a later command
\* was already waiting (command 2 produced no frame)
C16_Witness ==
    /\ loop_kind = "native"
    /\ last.wrote
    /\ shared_frame = 3
    /\ hist.prev_written = 1
    /\ cmd_queue # <<>>

\* C17: once the handle is dropped (Stop enqueued) the worker eventually leaves
\* its receive loop; when it has left, every command enqueued before Stop has
\* been handled, Stop was the last command handled and none is left.
C17_StopTerminates ==
    /\ handle_dropped ~> worker_exited
    /\ [](worker_exited =>
              /\ handle_dropped
              /\ last.cmd.type = "Stop"
              /\ hist.handled = hist.enqueued
              /\ cmd_queue = <<>>)

\* the worker left its loop after handling the commands enqueued before Stop
C17_Witness ==
    /\ worker_exited
    /\ hist.enqueued >= 2
    /\ hist.handled = hist.enqueued


(***************************************************************************)
(* A stream that never ends: the worker loops fed with DecodeAsync         *)
(* commands for ever, the stats consumer draining its channel.             *)
(***************************************************************************)
\* decode_async on a stream whose packets are not told apart
DecodeAsyncCallUntracked ==
    /\ ~handle_dropped
    /\ Len(cmd_queue) < MaxQueue
    /\ cmd_queue' = Append(cmd_queue, DecodeAsyncCommand(0))
    /\ UNCHANGED <<decoder_vars, gst_vars, upd, input_vars, loop_kind, handle_dropped, worker_exited, decoder_ready,
                   consecutive_failures, frames_decoded, stats_channel, shared_frame,
                   last, hist>>

InitWorkerLive ==
    /\ DecoderUnused
    /\ GstIdle
    /\ UpdIdle
    /\ InputIdle
    /\ loop_kind \in {"native", "linux"}
    /\ LoopStarted

NextWorkerLive ==
    \/ DecodeAsyncCallUntracked
    \/ NativeWorkerStep
    \/ LinuxWorkerStep
    \/ DrainStats

\* the worker thread is scheduled and the consumer keeps draining the stats channel
SpecWorkerLive ==
    /\ InitWorkerLive
    /\ [][NextWorkerLive]_vars
    /\ WF_vars(NativeWorkerStep)
    /\ WF_vars(LinuxWorkerStep)
    /\ WF_vars(DrainStats)

\* C15 as stated: if from some point on every decode call fails, and decode
\* calls keep being made, the stats consumer eventually receives a message
\* with needs_keyframe = true (after the last frame that was produced).
C15_KeyframeEventuallyReceived ==
    (/\ <>[](last.outcome # "frame")
     /\ []<><<NativeWorkerStep \/ LinuxWorkerStep>>_vars)
        => <>[]hist.kf_received


(***************************************************************************)
(* The decoder instance state after an IDR frame and after clear_dpb.      *)
(***************************************************************************)
\* decode_frame decoded an IDR frame: calculate_full_poc and update_dpb ran
idr_decoded == DecodedOk /\ args.is_idr

\* C18 as stated: after an IDR frame has been processed by calculate_full_poc
\* and update_dpb, prev_poc_lsb, prev_poc_msb, max_poc_lsb and frame_count are
\* all 0.
C18_IdrResetsAll ==
    idr_decoded =>
        /\ prev_poc_lsb = 0
        /\ prev_poc_msb = 0
        /\ max_poc_lsb = 0
        /\ frame_count = 0

\* C18, amended: after an IDR frame has been processed by calculate_full_poc
\* and update_dpb, prev_poc_lsb and prev_poc_msb are 0; max_poc_lsb is
\* 2^log2_max_poc_lsb of the frame's SPS, never 0; frame_count is one more than
\* before the call.
C18_IdrResetsPocHistory ==
    idr_decoded =>
        /\ prev_poc_lsb = 0
        /\ prev_poc_msb = 0
        /\ max_poc_lsb = 2 ^ args.log2_max_poc_lsb
        /\ max_poc_lsb > 0
        /\ frame_count = pre.frame_count + 1

\* an IDR frame with a nonzero pic_order_cnt_lsb was decoded on a decoder with
\* POC history and earlier frames
C18_Witness ==
    /\ idr_decoded
    /\ args.poc_lsb # 0
    /\ pre.prev_poc_lsb # 0
    /\ pre.prev_poc_msb # 0
    /\ pre.frame_count > 0


\* the full POC of a non-IDR frame on a decoder that has decoded nothing
\* (prev_poc_lsb = prev_poc_msb = 0), by H.265 8.3.1
first_frame_poc(poc_lsb, max) == IF poc_lsb > max \div 2 THEN poc_lsb - max ELSE poc_lsb

\* the operation that starts right after clear_dpb is a decode_frame that
\* derives the POC of a non-IDR frame
non_idr_after_clear ==
    /\ op = "clear_dpb"
    /\ op' = "decode_frame"
    /\ acq'.called
    /\ ~args'.is_idr

\* C19: after clear_dpb, from any state, the DPB is empty and prev_poc_lsb,
\* prev_poc_msb and frame_count are 0, and the POC of a non-IDR frame decoded
\* next is the one a decoder that has decoded nothing derives.
C19_ClearDpbResets ==
    /\ [](op = "clear_dpb" =>
            /\ dpb = <<>>
            /\ prev_poc_lsb = 0
            /\ prev_poc_msb = 0
            /\ frame_count = 0)
    /\ [][non_idr_after_clear =>
            /\ pic_params'.pp.curr_pic_order_cnt_val
                   = first_frame_poc(args'.poc_lsb, 2 ^ args'.log2_max_poc_lsb)
            /\ pic_params'.dpb = <<>>]_vars

\* clear_dpb ran on a decoder with a full DPB, POC history and a frame count
C19_Witness ==
    /\ op = "clear_dpb"
    /\ Len(pre.dpb) = dpb_max_size
    /\ pre.prev_poc_lsb # 0
    /\ pre.prev_poc_msb # 0
    /\ pre.frame_count > 0
    /\ dpb = <<>>


(***************************************************************************)
(* The surface pool when it is larger than the DPB.                        *)
(***************************************************************************)
\* C20: whenever surface_count > dpb_max_size, every call of get_next_surface,
\* in every sequence of operations, finds a free surface within its scan of
\* surface_count candidates: it takes neither the branch that evicts a DPB
\* entry nor the last-resort branch, and leaves the DPB as it found it.
C20_FreeSurfaceFound ==
    (surface_count > dpb_max_size /\ acq.called) =>
        /\ acq.branch = "free"
        /\ ~in_dpb(acq.dpb, acq.surface)
        /\ acq.surface < surface_count

\* get_next_surface ran with a full DPB that holds the surface at the cursor
\* and the one after it, and found the free surface behind them
C20_Witness ==
    /\ surface_count > dpb_max_size
    /\ acq.called
    /\ Len(acq.dpb) = dpb_max_size
    /\ in_dpb(acq.dpb, acq.cursor)
    /\ in_dpb(acq.dpb, (acq.cursor + 1) % surface_count)
    /\ acq.branch = "free"
    /\ acq.surface = (acq.cursor + 2) % surface_count


(***************************************************************************)
(* The last-frame slot of the GStreamer decoder (gstreamer_decoder.rs):    *)
(* an Arc<Mutex<Option<DecodedFrame>>> written by the appsink new-sample   *)
(* callback on the pipeline's streaming thread and emptied by decode() on  *)
(* the caller's thread.  Samples are numbered in the order the appsink     *)
(* delivers them.                                                          *)
(***************************************************************************)
\* a read of the slot that leaves the frame in it
option_peek(slot) == [value |-> slot, slot |-> slot]

\* Option::take on the slot: the frame held, and the slot left empty
option_take(slot) == [value |-> slot, slot |-> 0]

\* how a decode() call proceeds up to the push into appsrc
DecodeRoutes == {"empty", "buffer_failed", "push_failed", "pushed"}

\* new_sample: pull_sample; a sample without buffer, caps, video info, a
\* readable map or enough data returns without touching the slot
NewSample ==
    \E valid \in BOOLEAN :
        /\ appsink.pc = "idle"
        /\ gst.samples < MaxSamples
        /\ gst' = [gst EXCEPT !.samples = @ + 1]
        /\ appsink' = IF valid
                      THEN [pc |-> "want_lock", sample |-> gst.samples + 1]
                      ELSE appsink
        /\ UNCHANGED <<decoder_vars, worker_vars, upd, input_vars, last_frame, last_frame_lock, decode_pc>>

\* let mut guard = last_frame_clone.lock().unwrap()
CallbackLock ==
    /\ appsink.pc = "want_lock"
    /\ last_frame_lock = "none"
    /\ last_frame_lock' = "callback"
    /\ appsink' = [appsink EXCEPT !.pc = "locked"]
    /\ UNCHANGED <<decoder_vars, worker_vars, upd, input_vars, last_frame, decode_pc, gst>>

\* guard.take(): the buffers of a frame not yet taken are reused
CallbackTake ==
    \E t \in {option_take(last_frame)} :
        /\ appsink.pc = "locked"
        /\ last_frame' = t.slot
        /\ gst' = [gst EXCEPT !.replaced = IF t.value # 0 THEN @ + 1 ELSE @]
        /\ appsink' = [appsink EXCEPT !.pc = "taken"]
        /\ UNCHANGED <<decoder_vars, worker_vars, upd, input_vars, last_frame_lock, decode_pc>>

\* *guard = Some(frame), and the guard is dropped at the end of the block
CallbackStore ==
    /\ appsink.pc = "taken"
    /\ last_frame' = appsink.sample
    /\ last_frame_lock' = "none"
    /\ gst' = [gst EXCEPT !.stored = appsink.sample]
    /\ appsink' = [pc |-> "idle", sample |-> 0]
    /\ UNCHANGED <<decoder_vars, worker_vars, upd, input_vars, decode_pc>>

\* GStreamerDecoder::decode up to appsrc.push_buffer: empty input and a failed
\* push return Ok(None), a failed buffer allocation returns Err
GstDecodeCall ==
    \E route \in DecodeRoutes :
        /\ decode_pc = "idle"
        /\ gst.calls < MaxDecodeCalls
        /\ gst' = [gst EXCEPT !.calls = @ + 1]
        /\ decode_pc' = IF route = "pushed" THEN "want_lock" ELSE "idle"
        /\ UNCHANGED <<decoder_vars, worker_vars, upd, input_vars, last_frame, last_frame_lock, appsink>>

\* self.last_frame.lock().unwrap()
GstDecodeLock ==
    /\ decode_pc = "want_lock"
    /\ last_frame_lock = "none"
    /\ last_frame_lock' = "decode"
    /\ decode_pc' = "locked"
    /\ UNCHANGED <<decoder_vars, worker_vars, upd, input_vars, last_frame, appsink, gst>>

\* .take(), the temporary guard is dropped, and the frame taken is returned
GstDecodeTake ==
    \E t \in {option_take(last_frame)} :
        /\ decode_pc = "locked"
        /\ last_frame' = t.slot
        /\ last_frame_lock' = "none"
        /\ decode_pc' = "idle"
        /\ gst' = [gst EXCEPT !.returned = IF t.value # 0 THEN Append(@, t.value) ELSE @]
        /\ UNCHANGED <<decoder_vars, worker_vars, upd, input_vars, appsink>>

InitGst == DecoderUnused /\ WorkerIdle /\ GstIdle /\ UpdIdle /\ InputIdle

NextGst ==
    \/ NewSample
    \/ CallbackLock
    \/ CallbackTake
    \/ CallbackStore
    \/ GstDecodeCall
    \/ GstDecodeLock
    \/ GstDecodeTake

SpecGst == InitGst /\ [][NextGst]_vars

\* C21: the last-frame slot holds at most one frame, the newest one stored (a
\* new sample replaces a frame not yet taken); decode() removes the frame it
\* returns; under any interleaving of the appsink callback and decode() no
\* frame is returned twice and no returned frame is older than one returned
\* before it.
C21_LastFrameSlot ==
    /\ last_frame \in 0 .. gst.samples
    /\ (last_frame # 0 /\ appsink.pc \in {"idle", "want_lock"}) => last_frame = gst.stored
    /\ \A i \in 1 .. Len(gst.returned) :
          /\ gst.returned[i] # last_frame
          /\ \A j \in 1 .. (i - 1) : gst.returned[j] < gst.returned[i]
    /\ (last_frame # 0 /\ Len(gst.returned) > 0)
          => last_frame > gst.returned[Len(gst.returned)]

\* decode() waits for the mutex while the callback replaces a frame; two frames
\* were returned before and one other frame was overwritten untaken
C21_Witness ==
    /\ Len(gst.returned) >= 2
    /\ gst.replaced > 0
    /\ decode_pc = "want_lock"
    /\ last_frame_lock = "callback"
    /\ appsink.pc = "taken"


(***************************************************************************)
(* The surface cursor.                                                     *)
(***************************************************************************)
\* the step is a get_next_surface call on a decoder whose DPB is empty
acquires_on_empty_dpb ==
    /\ op' = "get_next_surface"
    /\ dpb = <<>>

\* C22: a get_next_surface call that returns candidate c leaves the cursor at
\* (c + 1) mod surface_count; a fresh decoder starts with the cursor at 0 and
\* every call made while the DPB is empty returns the cursor and advances it by
\* one, so successive calls return 0, 1, ..., surface_count - 1, 0, ...
C22_CursorAdvances ==
    /\ current_surface = 0
    /\ []((acq.called /\ acq.branch \in {"free", "last_resort"})
             => current_surface = (acq.surface + 1) % surface_count)
    /\ [][acquires_on_empty_dpb =>
             /\ acq'.surface = current_surface
             /\ acq'.branch = "free"
             /\ current_surface' = (current_surface + 1) % surface_count
             /\ dpb' = <<>>]_vars

\* only get_next_surface was called on a fresh decoder, and the call that
\* returned the last surface of the pool wrapped the cursor to 0
C22_Witness ==
    /\ op = "get_next_surface"
    /\ frame_count = 0
    /\ max_poc_lsb = DEFAULT_MAX_POC_LSB
    /\ acq.dpb = <<>>
    /\ surface_count = dpb_max_size + ExtraSurfaces
    /\ acq.cursor = surface_count - 1
    /\ acq.surface = surface_count - 1
    /\ current_surface = 0


(***************************************************************************)
(* Eviction from the DPB.                                                  *)
(***************************************************************************)
\* the DPB update_dpb starts its eviction loop with: the DPB the frame was
\* decoded against (cleared for an IDR frame) without the entry of the surface
\* the frame was decoded into
dpb_before_eviction ==
    SelectSeq(IF args.is_idr THEN <<>> ELSE pic_params.dpb,
              LAMBDA e : e.surface_index # acq.surface)

\* the entries of d that have fewer than dpb_max_size - 1 entries with a larger
\* frame_num: what is left when the entry with the smallest frame_num is
\* removed until fewer than dpb_max_size entries remain
newest_by_frame_num(d) ==
    SelectSeq(d, LAMBDA e :
        Cardinality({i \in 1 .. Len(d) : d[i].frame_num > e.frame_num})
            < dpb_max_size - 1)

\* C23: update_dpb removes the entries with the smallest frame_num, whatever
\* their POC, until fewer than dpb_max_size entries remain, and keeps the others
\* in order; it does so whether or not the new frame is a reference, and only a
\* reference frame is appended behind them.
C23_EvictSmallestFrameNum ==
    DecodedOk =>
        LET kept == newest_by_frame_num(dpb_before_eviction)
        IN  /\ Len(kept) < dpb_max_size
            /\ Len(dpb) = Len(kept) + (IF args.is_vcl THEN 1 ELSE 0)
            /\ SubSeq(dpb, 1, Len(kept)) = kept
            /\ Len(dpb_before_eviction) < dpb_max_size => kept = dpb_before_eviction

\* a frame that is not a reference was decoded against a full DPB: the entry
\* with the smallest frame_num was evicted although an entry with a lower POC
\* stayed, and nothing was appended
C23_Witness ==
    /\ DecodedOk
    /\ ~args.is_vcl
    /\ ~args.is_idr
    /\ Len(dpb_before_eviction) = dpb_max_size
    /\ Len(dpb) = dpb_max_size - 1
    /\ \E i \in 1 .. Len(dpb_before_eviction) :
          /\ \A j \in 1 .. Len(dpb) : dpb[j] # dpb_before_eviction[i]
          /\ \E j \in 1 .. Len(dpb) :
                /\ dpb[j].poc < dpb_before_eviction[i].poc
                /\ dpb[j].frame_num > dpb_before_eviction[i].frame_num


(***************************************************************************)
(* The exhausted surface pool.                                             *)
(***************************************************************************)
\* the DPB as the last get_next_surface call left it
dpb_after_acquisition == IF op = "get_next_surface" THEN dpb ELSE pic_params.dpb

\* C24: when every surface index 0 .. surface_count - 1 is in the DPB,
\* get_next_surface removes exactly the first DPB entry, returns that entry's
\* surface_index, leaves the other entries unchanged and in order, and leaves
\* the cursor at the value it had before the call.
C24_ExhaustedPoolEvictsFirst ==
    (acq.called /\ all_surfaces_in(acq.dpb)) =>
        /\ acq.branch = "evict_first"
        /\ acq.surface = acq.dpb[1].surface_index
        /\ dpb_after_acquisition = Tail(acq.dpb)
        /\ current_surface = acq.cursor

\* the pool was exhausted with several entries in the DPB, and the first entry
\* was neither the surface at the cursor nor the surface of the last entry
C24_Witness ==
    /\ acq.called
    /\ all_surfaces_in(acq.dpb)
    /\ Len(acq.dpb) >= 2
    /\ acq.dpb[1].surface_index # acq.cursor
    /\ acq.surface = acq.dpb[1].surface_index
    /\ Len(dpb_after_acquisition) = Len(acq.dpb) - 1


(***************************************************************************)
(* The reference lists built from DPBs larger than the lists.              *)
(***************************************************************************)
\* the POC of the first frame of the DPBs drawn below
ListedFirstPocs == {1, 8, 20}

\* the DPBs of n short-term reference frames on surfaces 0 .. n-1, decoded in
\* this order, with consecutive POCs in display order (step 1) or in reverse
\* display order (step -1)
ListedDpbs ==
    {[i \in 1 .. n |-> DpbEntry(i - 1, (IF step = 1 THEN first ELSE first + n - 1)
                                           + step * (i - 1), TRUE, FALSE, i)] :
        n \in 0 .. MaxListedDpb, first \in ListedFirstPocs, step \in {1, -1}}

InitRefs ==
    /\ dpb \in ListedDpbs
    /\ surface_count = 25
    /\ current_surface = Len(dpb) % surface_count
    /\ frame_count = Len(dpb)
    /\ prev_poc_lsb = 0
    /\ prev_poc_msb = 0
    /\ max_poc_lsb = DEFAULT_MAX_POC_LSB
    /\ op = "new"
    /\ args = [parse_ok |-> FALSE]
    /\ acq = NoAcq
    /\ pic_params = NoPicParams
    /\ calls = <<>>
    /\ result = "none"
    /\ pre = Snapshot
    /\ poc_ref = NoPocRef
    /\ bits = NoBits
    /\ WorkerIdle
    /\ GstIdle
    /\ UpdIdle
    /\ InputIdle

NextRefs == BuildPicParams

SpecRefs == InitRefs /\ [][NextRefs]_vars

\* list position k (1-based) of pp holds a reference
valid_ref(pp, k) == k \in 1 .. REF_PIC_LIST_LEN /\ pp.ref_pic_list[k] # INVALID

\* the slots of a reference set that hold a list position
used_slots(set) == {s \in 1 .. REF_PIC_SET_LEN : set[s] # INVALID}

\* C25: in every picture-parameter structure the valid ref_pic_list entries form
\* a prefix of at most 15 entries, ref_pic_set_st_curr_before and
\* ref_pic_set_st_curr_after have at most 8 non-0xFF slots each, and every
\* non-0xFF slot holds the position of a valid short-term ref_pic_list entry
\* whose POC is below, respectively above, the current POC.
C25_RefSetsPointIntoList ==
    op = "build_hevc_pic_params" =>
        LET pp == pic_params.pp
            cur == pp.curr_pic_order_cnt_val
            n_valid == Cardinality({k \in 1 .. REF_PIC_LIST_LEN : valid_ref(pp, k)})
        IN  /\ Len(pp.ref_pic_list) = REF_PIC_LIST_LEN
            /\ n_valid <= Len(pic_params.dpb)
            /\ \A k \in 1 .. REF_PIC_LIST_LEN : valid_ref(pp, k) <=> k <= n_valid
            /\ Cardinality(used_slots(pp.ref_pic_set_st_curr_before)) <= REF_PIC_SET_LEN
            /\ Cardinality(used_slots(pp.ref_pic_set_st_curr_after)) <= REF_PIC_SET_LEN
            /\ \A s \in used_slots(pp.ref_pic_set_st_curr_before) :
                  LET k == pp.ref_pic_set_st_curr_before[s] + 1
                  IN  /\ valid_ref(pp, k)
                      /\ pp.ref_pic_list[k] < 128
                      /\ pp.pic_order_cnt_val_list[k] < cur
            /\ \A s \in used_slots(pp.ref_pic_set_st_curr_after) :
                  LET k == pp.ref_pic_set_st_curr_after[s] + 1
                  IN  /\ valid_ref(pp, k)
                      /\ pp.ref_pic_list[k] < 128
                      /\ pp.pic_order_cnt_val_list[k] > cur

\* a DPB of 18 entries with more than 8 references before and several after the
\* current POC: the list is full, the before set is full, and some references
\* after the current POC did not fit into the list
C25_Witness ==
    /\ op = "build_hevc_pic_params"
    /\ ~args.is_idr
    /\ Len(pic_params.dpb) = 18
    /\ \A k \in 1 .. REF_PIC_LIST_LEN : valid_ref(pic_params.pp, k)
    /\ Cardinality(before_entries(pic_params.dpb, args.full_poc)) > REF_PIC_SET_LEN
    /\ used_slots(pic_params.pp.ref_pic_set_st_curr_before) = 1 .. REF_PIC_SET_LEN
    /\ used_slots(pic_params.pp.ref_pic_set_st_curr_after) # {}
    /\ Cardinality(before_entries(pic_params.dpb, args.full_poc))
          + Cardinality(after_entries(pic_params.dpb, args.full_poc)) > REF_PIC_LIST_LEN


(***************************************************************************)
(* Long-term references.  DpbEntry has an is_long_term field and           *)
(* build_hevc_pic_params has a loop for the entries that set it;           *)
(* update_dpb only creates entries with is_long_term = false, so the DPBs  *)
(* below are built directly.                                               *)
(***************************************************************************)
\* DPBs of up to MaxBuildDpb reference frames on surfaces 0 .. n-1, each
\* short-term or long-term
LongTermDpbs ==
    UNION {{[i \in 1 .. n |-> DpbEntry(i - 1, 10 * i, TRUE, lt[i], i)] :
             lt \in [1 .. n -> BOOLEAN]} : n \in 0 .. MaxBuildDpb}

InitLongTerm ==
    /\ dpb \in LongTermDpbs
    /\ surface_count = 25
    /\ current_surface \in {Len(dpb), Len(dpb) + 1}
    /\ frame_count = Len(dpb)
    /\ prev_poc_lsb = 0
    /\ prev_poc_msb = 0
    /\ max_poc_lsb = DEFAULT_MAX_POC_LSB
    /\ op = "new"
    /\ args = [parse_ok |-> FALSE]
    /\ acq = NoAcq
    /\ pic_params = NoPicParams
    /\ calls = <<>>
    /\ result = "none"
    /\ pre = Snapshot
    /\ poc_ref = NoPocRef
    /\ bits = NoBits
    /\ WorkerIdle
    /\ GstIdle
    /\ UpdIdle
    /\ InputIdle

NextLongTerm == BuildPicParams

SpecLongTerm == InitLongTerm /\ [][NextLongTerm]_vars

EnumeratedConfig(ok, raw) == [ok |-> ok, ConfigBitstreamRaw |-> raw]

EnumeratedConfigs ==
    {EnumeratedConfig(FALSE, 0)} \cup {EnumeratedConfig(TRUE, raw) : raw \in ConfigBitstreamRaws}

ConfigLists == UNION {[1 .. n -> EnumeratedConfigs] : n \in 0 .. MaxConfigs}

NoConfig == [found |-> FALSE, ConfigBitstreamRaw |-> 0]

\* the enumeration loop of initialize_decoder and selected_config.or(fallback_config)
RECURSIVE select_config(_, _, _)
select_config(configs, selected_config, fallback_config) ==
    IF configs = <<>>
    THEN IF selected_config.found THEN selected_config ELSE fallback_config
    ELSE LET config == Head(configs)
             this == [found |-> TRUE, ConfigBitstreamRaw |-> config.ConfigBitstreamRaw]
         IN  IF ~config.ok
             THEN select_config(Tail(configs), selected_config, fallback_config)
             ELSE IF config.ConfigBitstreamRaw = 2
             THEN select_config(Tail(configs), this, fallback_config)
             ELSE IF ~fallback_config.found
             THEN select_config(Tail(configs), selected_config, this)
             ELSE select_config(Tail(configs), selected_config, fallback_config)

\* a decoder DxvaDecoder::new returned: some configuration was found, and its
\* ConfigBitstreamRaw is stored; args keeps the enumeration
InitConfig ==
    /\ surface_count = 25
    /\ current_surface = 0
    /\ dpb = <<>>
    /\ frame_count = 0
    /\ prev_poc_lsb = 0
    /\ prev_poc_msb = 0
    /\ max_poc_lsb = DEFAULT_MAX_POC_LSB
    /\ op = "new"
    /\ acq = NoAcq
    /\ pic_params = NoPicParams
    /\ calls = <<>>
    /\ result = "none"
    /\ pre = Snapshot
    /\ poc_ref = NoPocRef
    /\ \E configs \in ConfigLists, nals \in SliceNalLists :
          \E c \in {select_config(configs, NoConfig, NoConfig)} :
              /\ c.found
              /\ args = [parse_ok |-> FALSE, configs |-> configs]
              /\ bits = [built |-> FALSE, config_bitstream_raw |-> c.ConfigBitstreamRaw,
                         slice_nals |-> nals]
    /\ WorkerIdle
    /\ GstIdle
    /\ UpdIdle
    /\ InputIdle

NextConfig == BuildBitstream

SpecConfig == InitConfig /\ [][NextConfig]_vars

\* the accelerator enumerated a configuration with ConfigBitstreamRaw = 2
offers_short_slices ==
    \E i \in 1 .. Len(args.configs) :
        args.configs[i].ok /\ args.configs[i].ConfigBitstreamRaw = 2

\* slice i lies in the bitstream as len_before bytes equal to `before` followed
\* by its NAL unit, and its control counts both
slice_framed(i, before) ==
    LET c == bits.slice_controls[i]
        at == c.bs_nal_unit_data_location
        data == bits.slice_nals[i].data
    IN  /\ SubSeq(bits.bitstream, at + 1, at + Len(before)) = before
        /\ SubSeq(bits.bitstream, at + Len(before) + 1, at + Len(before) + Len(data)) = data
        /\ IF i < Len(bits.slice_controls)
           THEN c.slice_bytes_in_buffer = Len(before) + Len(data)
           ELSE c.slice_bytes_in_buffer >= Len(before) + Len(data)
        /\ i > 1 =>
              at = bits.slice_controls[i - 1].bs_nal_unit_data_location
                   + bits.slice_controls[i - 1].slice_bytes_in_buffer

\* C27: the decoder frames its slices without start codes whenever the
\* accelerator enumerates a configuration with ConfigBitstreamRaw = 2, which is
\* then the selected one; for every other selected configuration each slice
\* NAL unit in the submitted bitstream is preceded by the start code 00 00 01 and
\* its slice_bytes_in_buffer counts those 3 bytes.
C27_StartCodesUnlessShortSlices ==
    bits.built =>
        IF offers_short_slices
        THEN /\ bits.config_bitstream_raw = 2
             /\ \A i \in 1 .. Len(bits.slice_nals) : slice_framed(i, <<>>)
        ELSE \A i \in 1 .. Len(bits.slice_nals) : slice_framed(i, START_CODE)


(***************************************************************************)
(* The layout of the slices in the submitted bitstream.                    *)
(***************************************************************************)
\* the bytes of all slices, start codes included, without the padding
RECURSIVE framed_total(_)
framed_total(n) == IF n = 0 THEN 0 ELSE framed_len(n) + framed_total(n - 1)

\* C28: the slice controls describe contiguous, non-overlapping slices in input
\* order: the first slice starts at offset 0, each later slice starts where the
\* previous one ends (its location plus its unpadded byte count), every slice
\* holds the NAL unit of the same position of the input, and only the last
\* slice's byte count includes the padding.
C28_ContiguousSlices ==
    bits.built =>
        LET n == Len(bits.slice_nals)
            c == bits.slice_controls
            padding == Len(bits.bitstream) - framed_total(n)
        IN  /\ Len(c) = n
            /\ n > 0 => c[1].bs_nal_unit_data_location = 0
            /\ \A i \in 2 .. n :
                  c[i].bs_nal_unit_data_location
                      = c[i - 1].bs_nal_unit_data_location + framed_len(i - 1)
            /\ \A i \in 1 .. n :
                  LET from == c[i].bs_nal_unit_data_location + framed_len(i)
                                 - Len(bits.slice_nals[i].data)
                  IN  SubSeq(bits.bitstream, from + 1, from + Len(bits.slice_nals[i].data))
                          = bits.slice_nals[i].data
            /\ \A i \in 1 .. (n - 1) : c[i].slice_bytes_in_buffer = framed_len(i)
            /\ padding \in 0 .. (BITSTREAM_ALIGN - 1)
            /\ n > 0 => c[n].slice_bytes_in_buffer = framed_len(n) + padding

\* three slices of 2, 125 and 128 bytes with start codes lie at 0, 5 and 133;
\* the 264 bytes are padded to 384 and only the last slice counts the padding
C28_Witness ==
    /\ bits.built
    /\ bits.config_bitstream_raw = 1
    /\ Len(bits.slice_nals) = 3
    /\ Len(bits.slice_nals[1].data) = 2
    /\ Len(bits.slice_nals[2].data) = 125
    /\ Len(bits.slice_nals[3].data) = 128
    /\ bits.slice_controls[1].bs_nal_unit_data_location = 0
    /\ bits.slice_controls[2].bs_nal_unit_data_location = 5
    /\ bits.slice_controls[3].bs_nal_unit_data_location = 133
    /\ bits.slice_controls[2].slice_bytes_in_buffer = 128
    /\ bits.slice_controls[3].slice_bytes_in_buffer = 251
    /\ Len(bits.bitstream) = 384


(***************************************************************************)
(* Insertion order and frame_num order of the DPB.                         *)
(***************************************************************************)
\* the entries of d are in strictly increasing frame_num order
frame_num_ordered(d) ==
    \A i, j \in 1 .. Len(d) : i < j => d[i].frame_num < d[j].frame_num

\* C29: in every reachable decoder state the DPB entries are stored in strictly
\* increasing frame_num order, so the first entry is the one with the smallest
\* frame_num, and the exhaustion fallback of get_next_surface evicts the entry
\* that update_dpb's oldest-by-frame_num rule would evict.
C29_InsertionOrderIsFrameNumOrder ==
    /\ frame_num_ordered(dpb)
    /\ \A i \in 1 .. Len(dpb) : dpb[i].frame_num \in 1 .. frame_count
    /\ acq.called =>
          /\ frame_num_ordered(acq.dpb)
          /\ acq.branch = "evict_first" =>
                /\ \A i \in 1 .. Len(acq.dpb) :
                      acq.dpb[1].frame_num <= acq.dpb[i].frame_num
                /\ acq.surface = acq.dpb[1].surface_index
                /\ \A i \in 1 .. Len(dpb_after_acquisition) :
                      dpb_after_acquisition[i].frame_num > acq.dpb[1].frame_num

\* the exhaustion fallback ran on a full DPB whose entries were appended after
\* an earlier eviction by the fallback, and removed the entry with the smallest
\* frame_num
C29_Witness ==
    /\ acq.called
    /\ acq.branch = "evict_first"
    /\ Len(acq.dpb) = dpb_max_size
    /\ acq.dpb[1].frame_num > 1
    /\ acq.dpb[1].surface_index # 0
    /\ Len(dpb_after_acquisition) = dpb_max_size - 1


(***************************************************************************)
(* The output surface of a frame and its reference surfaces.               *)
(***************************************************************************)
\* decode_frame got as far as building the picture parameters
params_built == op = "decode_frame" /\ acq.called /\ pic_params.built

\* the surface index of a picture entry (its low 7 bits)
entry_surface(entry) == entry % 128

\* C30: for every frame decoded by decode_frame, curr_pic in the picture
\* parameters is the surface acquired for that frame, and no valid ref_pic_list
\* entry of the same frame refers to that surface.
C30_OutputNotOwnReference ==
    params_built =>
        /\ pic_params.surface_idx = acq.surface
        /\ pic_params.pp.curr_pic = acq.surface
        /\ \A k \in 1 .. REF_PIC_LIST_LEN :
              valid_ref(pic_params.pp, k) =>
                  /\ entry_surface(pic_params.pp.ref_pic_list[k]) # acq.surface
                  /\ pic_params.pp.ref_pic_list[k] # pic_params.pp.curr_pic

\* a frame was decoded into a surface that the DPB referenced when the surface
\* was acquired (exhausted pool), with a reference to another surface
C30_Witness ==
    /\ DecodedOk
    /\ params_built
    /\ ~args.is_idr
    /\ in_dpb(acq.dpb, acq.surface)
    /\ acq.branch = "evict_first"
    /\ valid_ref(pic_params.pp, 1)
    /\ pic_params.pp.curr_pic = acq.surface


(***************************************************************************)
(* C31: shape of the POC history kept by calculate_full_poc.               *)
(***************************************************************************)
\* the state after a calculate_full_poc call: the MSB is a multiple of
\* max_poc_lsb and the returned POC is congruent to its poc_lsb
poc_shape_after ==
    /\ prev_poc_msb' % max_poc_lsb = 0
    /\ poc_ref'.called =>
           /\ 0 <= poc_ref'.poc_lsb /\ poc_ref'.poc_lsb < max_poc_lsb
           /\ poc_ref'.full_poc % max_poc_lsb = poc_ref'.poc_lsb

\* the MSB moved by at most one max_poc_lsb in this step
msb_step_at_most_one ==
    /\ prev_poc_msb' - prev_poc_msb <= max_poc_lsb
    /\ prev_poc_msb - prev_poc_msb' <= max_poc_lsb

MaxLoopCapacity == 3
MaxLoopDpb == 4
LoopFrameNums == 1 .. 3
LoopSurfaces == {0, 9}
LoopPocs == {40}

\* the values of self.dpb_max_size
DpbMaxSizes == 1 .. MaxLoopCapacity

\* DPBs of n entries on surfaces 0 .. n-1 with any frame numbers, equal ones
\* included
LoopDpbs ==
    UNION {{[i \in 1 .. n |-> DpbEntry(i - 1, 8 * i, TRUE, FALSE, f[i])] :
               f \in [1 .. n -> LoopFrameNums]} : n \in 0 .. MaxLoopDpb}

\* the loop body left without a removal
evict_body_no_removal(d) == d

\* the body of the eviction loop:
\* if let Some(oldest_idx) = ...min_by_key(frame_num) { self.dpb.remove(oldest_idx); }
evict_body(d) == IF d = <<>> THEN d ELSE remove_at(d, oldest_idx(d))

InitUpdateDpb ==
    /\ dpb \in LoopDpbs
    /\ upd \in {[pc |-> "idle", dpb_max_size |-> m] : m \in DpbMaxSizes}
    /\ surface_count = 25
    /\ current_surface = 0
    /\ frame_count = 3
    /\ prev_poc_lsb = 0
    /\ prev_poc_msb = 0
    /\ max_poc_lsb = DEFAULT_MAX_POC_LSB
    /\ op = "new"
    /\ args = [parse_ok |-> FALSE]
    /\ acq = NoAcq
    /\ pic_params = NoPicParams
    /\ calls = <<>>
    /\ result = "none"
    /\ pre = Snapshot
    /\ poc_ref = [called |-> FALSE, true_poc |-> 0]
    /\ bits = NoBits
    /\ WorkerIdle
    /\ GstIdle
    /\ InputIdle

\* update_dpb up to its loop: count the frame, clear on IDR, drop the entry of
\* the reused surface
UpdateDpbEnter ==
    \E surface_idx \in LoopSurfaces, poc \in LoopPocs, is_reference \in BOOLEAN,
       is_idr \in BOOLEAN :
        /\ upd.pc = "idle"
        /\ frame_count' = frame_count + 1
        /\ dpb' = retain_other_surfaces(IF is_idr THEN <<>> ELSE dpb, surface_idx)
        /\ prev_poc_lsb' = IF is_idr THEN 0 ELSE prev_poc_lsb
        /\ prev_poc_msb' = IF is_idr THEN 0 ELSE prev_poc_msb
        /\ op' = "update_dpb"
        /\ pre' = Snapshot
        /\ upd' = [pc |-> "loop", dpb_max_size |-> upd.dpb_max_size,
                   surface_idx |-> surface_idx, poc |-> poc, is_reference |-> is_reference,
                   is_idr |-> is_idr, iterations |-> 0,
                   len_at_loop |-> Len(dpb')]
        /\ UNCHANGED <<surface_count, current_surface, max_poc_lsb, args, acq, pic_params,
                       calls, result, poc_ref, bits, worker_vars, gst_vars, input_vars>>

\* one iteration: the condition self.dpb.len() >= self.dpb_max_size held
EvictIteration ==
    /\ upd.pc = "loop"
    /\ Len(dpb) >= upd.dpb_max_size
    /\ dpb' = evict_body(dpb)
    /\ upd' = [upd EXCEPT !.iterations = @ + 1]
    /\ UNCHANGED <<surface_count, current_surface, frame_count, prev_poc_lsb, prev_poc_msb,
                   max_poc_lsb, op, args, acq, pic_params, calls, result, pre, poc_ref,
                   bits, worker_vars, gst_vars, input_vars>>

\* the condition failed: push the frame if it is a reference, and return
UpdateDpbReturn ==
    /\ upd.pc = "loop"
    /\ Len(dpb) < upd.dpb_max_size
    /\ dpb' = IF upd.is_reference
              THEN Append(dpb, DpbEntry(AsU8(upd.surface_idx), upd.poc, TRUE, FALSE,
                                        frame_count))
              ELSE dpb
    /\ upd' = [upd EXCEPT !.pc = "returned"]
    /\ UNCHANGED <<surface_count, current_surface, frame_count, prev_poc_lsb, prev_poc_msb,
                   max_poc_lsb, op, args, acq, pic_params, calls, result, pre, poc_ref,
                   bits, worker_vars, gst_vars, input_vars>>

NextUpdateDpb == UpdateDpbEnter \/ EvictIteration \/ UpdateDpbReturn

\* the thread inside update_dpb keeps running
SpecUpdateDpb == InitUpdateDpb /\ [][NextUpdateDpb]_vars /\ WF_vars(NextUpdateDpb)

\* C32: for every dpb_max_size >= 1 and every DPB content update_dpb
\* terminates: each iteration of the eviction loop removes exactly one entry,
\* so the DPB size strictly decreases, and the call returns with the size
\* below dpb_max_size before the push.
C32_UpdateDpbTerminates ==
    /\ [][(upd.pc = "loop" /\ upd'.pc = "loop") => Len(dpb') = Len(dpb) - 1]_vars
    /\ [][(upd.pc = "loop" /\ upd'.pc = "returned") =>
              /\ Len(dpb) < upd.dpb_max_size
              /\ upd.len_at_loop - upd.iterations = Len(dpb)]_vars
    /\ (upd.pc = "loop") ~> (upd.pc = "returned")

\* a call entered the loop with a DPB over capacity and returned after more
\* than one iteration
C32_Witness ==
    /\ upd.pc = "returned"
    /\ upd.dpb_max_size = 2
    /\ upd.len_at_loop = MaxLoopDpb
    /\ upd.iterations = MaxLoopDpb - 1
    /\ ~upd.is_idr


(***************************************************************************)
(* C33: a failed decode_frame leaves no trace of the frame in the DPB.     *)
(***************************************************************************)
DecodeFailed == op = "decode_frame" /\ result = "err"

\* the entries of a DPB, as a set
dpb_entries(d) == {d[i] : i \in 1 .. Len(d)}

\* C33: a decode_frame call that returns an error never reaches update_dpb: the
\* call sequence has no update_dpb, frame_count is what it was at the call, the
\* DPB has no entry that it did not have at the call, and the surface the
\* failed frame was given is not tracked, so no later frame can list it as a
\* reference.
C33_FailedFrameNotTracked ==
    DecodeFailed =>
        /\ \A i \in 1 .. Len(calls) : calls[i].call # "update_dpb"
        /\ frame_count = pre.frame_count
        /\ dpb_entries(dpb) \subseteq dpb_entries(pre.dpb)
        /\ \A i \in 1 .. Len(dpb) : dpb[i].frame_num <= frame_count
        /\ acq.called => ~in_dpb(dpb, acq.surface)

\* DecoderEndFrame failed for a frame that followed a tracked reference frame:
\* the frame was begun and its buffers were submitted, and the DPB is still the
\* one of the call
C33_Witness ==
    /\ DecodeFailed
    /\ args.fail.at = "DecoderEndFrame"
    /\ ~args.is_idr
    /\ args.is_vcl
    /\ Len(pre.dpb) = 1
    /\ dpb = pre.dpb
    /\ calls[1].call = "DecoderBeginFrame"


(***************************************************************************)
(* C34: DecoderBeginFrame / DecoderEndFrame pairing inside decode_frame.   *)
(***************************************************************************)
\* C34: every successful DecoderBeginFrame is followed by a DecoderEndFrame
\* before decode_frame returns, also when a buffer submission or
\* SubmitDecoderBuffers between them fails: the hardware decoder is never left
\* with an open frame.
C34_BeginFrameClosed ==
    op = "decode_frame" =>
        \A i \in 1 .. Len(calls) :
            (calls[i].call = "DecoderBeginFrame" /\ args.fail.at # "DecoderBeginFrame") =>
                \E j \in (i + 1) .. Len(calls) : calls[j].call = "DecoderEndFrame"


(***************************************************************************)
(* input/linux.rs: the raw-input thread and the public functions, one      *)
(* atomic access (load, store, swap, fetch_add) or one critical section    *)
(* of the EVENT_SENDER mutex per step.  COALESCE_LAST_SEND_US and the      *)
(* clock are not state: the interval test of process_mouse_delta is a free *)
(* choice.  COALESCED_EVENT_COUNT and ACTIVE_BACKEND are written only.     *)
(***************************************************************************)
MaxThreads == 2
MaxEvents == 3
MaxBatch == 2
MaxApiCalls == 2
ChannelCapacity == 2

I16_MIN == -32768
I16_MAX == 32767

\* `v as i16` of an i32
AsI16(v) == ((v - I16_MIN) % (I16_MAX - I16_MIN + 1)) + I16_MIN

\* i32::clamp(min, max)
clamp(v, min, max) == IF v < min THEN min ELSE IF v > max THEN max ELSE v

\* the relative-axis events a device delivers: REL_X / REL_Y with a value
DeviceEvents == {[axis |-> "x", value |-> 20000], [axis |-> "y", value |-> -2]}

\* what one fetch_events call returns: one to MaxBatch events
Batches == UNION {[1 .. n -> DeviceEvents] : n \in 1 .. MaxBatch}

\* the stream resolutions passed to set_local_cursor_dimensions
Dimensions == {[width |-> 800, height |-> 600]}

\* a thread outside every function, with its locals dead
ThreadAt(pc) ==
    [pc |-> pc, fn |-> "-", ret |-> "-", dx |-> 0, dy |-> 0, width |-> 0, height |-> 0,
     old_x |-> 0, old_y |-> 0, batch |-> <<>>]

\* threads are named <<"raw", i>> (spawned by start_evdev_input) or
\* <<"caller", i>> (threads of the application that call the public functions)
thread(t) == IF t[1] = "raw" THEN input_threads[t[2]] ELSE callers[t[2]]

AllThreads ==
    {<<"raw", i>> : i \in DOMAIN input_threads} \cup {<<"caller", i>> : i \in DOMAIN callers}

\* an atomic store to one static (v = "none": no store)
Store(v, x) ==
    /\ RAW_INPUT_REGISTERED' = IF v = "RAW_INPUT_REGISTERED" THEN x ELSE RAW_INPUT_REGISTERED
    /\ RAW_INPUT_ACTIVE' = IF v = "RAW_INPUT_ACTIVE" THEN x ELSE RAW_INPUT_ACTIVE
    /\ STOP_REQUESTED' = IF v = "STOP_REQUESTED" THEN x ELSE STOP_REQUESTED
    /\ ACCUMULATED_DX' = IF v = "ACCUMULATED_DX" THEN x ELSE ACCUMULATED_DX
    /\ ACCUMULATED_DY' = IF v = "ACCUMULATED_DY" THEN x ELSE ACCUMULATED_DY
    /\ COALESCE_DX' = IF v = "COALESCE_DX" THEN x ELSE COALESCE_DX
    /\ COALESCE_DY' = IF v = "COALESCE_DY" THEN x ELSE COALESCE_DY
    /\ LOCAL_CURSOR_X' = IF v = "LOCAL_CURSOR_X" THEN x ELSE LOCAL_CURSOR_X
    /\ LOCAL_CURSOR_Y' = IF v = "LOCAL_CURSOR_Y" THEN x ELSE LOCAL_CURSOR_Y
    /\ LOCAL_CURSOR_WIDTH' = IF v = "LOCAL_CURSOR_WIDTH" THEN x ELSE LOCAL_CURSOR_WIDTH
    /\ LOCAL_CURSOR_HEIGHT' = IF v = "LOCAL_CURSOR_HEIGHT" THEN x ELSE LOCAL_CURSOR_HEIGHT

\* one step of thread t: its new position and locals, at most one atomic
\* store, the sender's channel and the history afterwards
InputStep(t, rec, v, x, snd, h) ==
    /\ IF t[1] = "raw"
       THEN input_threads' = [input_threads EXCEPT ![t[2]] = rec] /\ UNCHANGED callers
       ELSE callers' = [callers EXCEPT ![t[2]] = rec] /\ UNCHANGED input_threads
    /\ Store(v, x)
    /\ EVENT_SENDER' = snd
    /\ input_hist' = h
    /\ UNCHANGED <<decoder_vars, worker_vars, gst_vars, upd>>

\* the thread after the function it is in returns to its caller
Return(r) == [ThreadAt(r.ret) EXCEPT !.batch = r.batch]

Goto(r, pc) == [r EXCEPT !.pc = pc]

\* sender.try_send(event) on a bounded channel nobody drains in the meantime
sender_try_send(channel, event) ==
    IF Len(channel) < ChannelCapacity THEN Append(channel, event) ELSE channel

PmdPcs ==
    {"pmd", "pmd_load_width", "pmd_load_height", "pmd_load_x", "pmd_load_y", "pmd_store_x",
     "pmd_store_y", "pmd_add_coalesce_dx", "pmd_add_coalesce_dy", "pmd_add_accumulated_dx",
     "pmd_add_accumulated_dy", "pmd_interval"}

FlushPcs == {"flush_swap_dx", "flush_swap_dy", "flush_send"}

\* flush_coalesced_events, called by process_mouse_delta and by
\* flush_pending_mouse_events
FlushCoalescedEvents(t) ==
    \E r \in {thread(t)} :
        /\ r.pc \in FlushPcs
        /\ CASE r.pc = "flush_swap_dx" ->
                  InputStep(t, [r EXCEPT !.pc = "flush_swap_dy", !.dx = COALESCE_DX],
                            "COALESCE_DX", 0, EVENT_SENDER, input_hist)
             [] r.pc = "flush_swap_dy" ->
                  IF r.dx # 0 \/ COALESCE_DY # 0
                  THEN InputStep(t, [r EXCEPT !.pc = "flush_send", !.dy = COALESCE_DY],
                                 "COALESCE_DY", 0, EVENT_SENDER, input_hist)
                  ELSE InputStep(t, Return(r), "COALESCE_DY", 0, EVENT_SENDER, input_hist)
             [] r.pc = "flush_send" ->
                  \* let guard = EVENT_SENDER.lock(); if let Some(sender) { try_send }
                  LET event == [dx |-> AsI16(r.dx), dy |-> AsI16(r.dy)]
                      sent == EVENT_SENDER # "None" /\ Len(EVENT_SENDER) < ChannelCapacity
                  IN  InputStep(t, Return(r), "none", 0,
                                IF EVENT_SENDER = "None" THEN EVENT_SENDER
                                ELSE sender_try_send(EVENT_SENDER, event),
                                [input_hist EXCEPT
                                   !.unsent = @ \/ ~sent,
                                   !.truncated = @ \/ event.dx # r.dx \/ event.dy # r.dy])

\* process_mouse_delta(dx, dy), called by the raw-input thread for each event
ProcessMouseDelta(t) ==
    \E r \in {thread(t)} :
        /\ r.pc \in PmdPcs
        /\ CASE r.pc = "pmd" ->
                  IF r.dx = 0 /\ r.dy = 0
                  THEN InputStep(t, Return(r), "none", 0, EVENT_SENDER, input_hist)
                  ELSE InputStep(t, Goto(r, "pmd_load_width"), "none", 0, EVENT_SENDER,
                                 [input_hist EXCEPT !.passed_dx = @ + r.dx,
                                                    !.passed_dy = @ + r.dy])
             [] r.pc = "pmd_load_width" ->
                  InputStep(t, [r EXCEPT !.pc = "pmd_load_height",
                                         !.width = LOCAL_CURSOR_WIDTH],
                            "none", 0, EVENT_SENDER, input_hist)
             [] r.pc = "pmd_load_height" ->
                  InputStep(t, [r EXCEPT !.pc = "pmd_load_x", !.height = LOCAL_CURSOR_HEIGHT],
                            "none", 0, EVENT_SENDER, input_hist)
             [] r.pc = "pmd_load_x" ->
                  InputStep(t, [r EXCEPT !.pc = "pmd_load_y", !.old_x = LOCAL_CURSOR_X],
                            "none", 0, EVENT_SENDER, input_hist)
             [] r.pc = "pmd_load_y" ->
                  InputStep(t, [r EXCEPT !.pc = "pmd_store_x", !.old_y = LOCAL_CURSOR_Y],
                            "none", 0, EVENT_SENDER, input_hist)
             [] r.pc = "pmd_store_x" ->
                  InputStep(t, Goto(r, "pmd_store_y"), "LOCAL_CURSOR_X",
                            clamp(r.old_x + r.dx, 0, r.width), EVENT_SENDER, input_hist)
             [] r.pc = "pmd_store_y" ->
                  InputStep(t, [r EXCEPT !.pc = "pmd_add_coalesce_dx", !.width = 0,
                                         !.height = 0, !.old_x = 0, !.old_y = 0],
                            "LOCAL_CURSOR_Y", clamp(r.old_y + r.dy, 0, r.height),
                            EVENT_SENDER, input_hist)
             [] r.pc = "pmd_add_coalesce_dx" ->
                  InputStep(t, Goto(r, "pmd_add_coalesce_dy"), "COALESCE_DX",
                            COALESCE_DX + r.dx, EVENT_SENDER, input_hist)
             [] r.pc = "pmd_add_coalesce_dy" ->
                  InputStep(t, Goto(r, "pmd_add_accumulated_dx"), "COALESCE_DY",
                            COALESCE_DY + r.dy, EVENT_SENDER, input_hist)
             [] r.pc = "pmd_add_accumulated_dx" ->
                  InputStep(t, Goto(r, "pmd_add_accumulated_dy"), "ACCUMULATED_DX",
                            ACCUMULATED_DX + r.dx, EVENT_SENDER, input_hist)
             [] r.pc = "pmd_add_accumulated_dy" ->
                  InputStep(t, [r EXCEPT !.pc = "pmd_interval", !.dx = 0, !.dy = 0],
                            "ACCUMULATED_DY", ACCUMULATED_DY + r.dy, EVENT_SENDER,
                            input_hist)
             [] r.pc = "pmd_interval" ->
                  \* now_us - last_us >= MOUSE_COALESCE_INTERVAL_US, or not
                  \E elapsed \in BOOLEAN :
                      InputStep(t, IF elapsed THEN Goto(r, "flush_swap_dx") ELSE Return(r),
                                "none", 0, EVENT_SENDER, input_hist)

ThreadPcs ==
    {"started", "loop_top", "fetch", "check_active", "dispatch", "cleanup_registered",
     "cleanup_active"}

\* the closure spawned by start_evdev_input: re-open the device, then the
\* event loop, then the cleanup
ThreadBody(t) ==
    \E r \in {thread(t)} :
        /\ t[1] = "raw"
        /\ r.pc \in ThreadPcs
        /\ CASE r.pc = "started" ->
                  \E reopened \in BOOLEAN :
                      InputStep(t, Goto(r, IF reopened THEN "loop_top"
                                           ELSE "cleanup_registered"),
                                "none", 0, EVENT_SENDER, input_hist)
             [] r.pc = "loop_top" ->
                  InputStep(t, Goto(r, IF STOP_REQUESTED THEN "cleanup_registered"
                                       ELSE "fetch"),
                            "none", 0, EVENT_SENDER, input_hist)
             [] r.pc = "fetch" ->
                  \* device.fetch_events(): Ok(events), or Err and a short sleep; a
                  \* read that blocks is this step not being taken
                  \E b \in Batches \cup {<<>>} :
                      /\ input_hist.events + Len(b) <= MaxEvents
                      /\ InputStep(t, [r EXCEPT !.pc = IF b = <<>> THEN "loop_top"
                                                       ELSE "check_active",
                                                !.batch = b],
                                   "none", 0, EVENT_SENDER,
                                   [input_hist EXCEPT !.events = @ + Len(b)])
             [] r.pc = "check_active" ->
                  InputStep(t, IF RAW_INPUT_ACTIVE THEN Goto(r, "dispatch")
                               ELSE ThreadAt("loop_top"),
                            "none", 0, EVENT_SENDER, input_hist)
             [] r.pc = "dispatch" ->
                  IF r.batch = <<>>
                  THEN InputStep(t, Goto(r, "loop_top"), "none", 0, EVENT_SENDER, input_hist)
                  ELSE LET event == Head(r.batch)
                       IN  InputStep(t, [r EXCEPT
                                           !.pc = "pmd", !.ret = "dispatch",
                                           !.dx = IF event.axis = "x" THEN event.value ELSE 0,
                                           !.dy = IF event.axis = "y" THEN event.value ELSE 0,
                                           !.batch = Tail(r.batch)],
                                     "none", 0, EVENT_SENDER,
                                     [input_hist EXCEPT !.late = @ \/ input_hist.paused])
             [] r.pc = "cleanup_registered" ->
                  InputStep(t, Goto(r, "cleanup_active"), "RAW_INPUT_REGISTERED", FALSE,
                            EVENT_SENDER,
                            [input_hist EXCEPT
                               !.overwritten = @ \/ (RAW_INPUT_REGISTERED
                                                      /\ t[2] < input_hist.spawned)])
             [] r.pc = "cleanup_active" ->
                  InputStep(t, ThreadAt("exited"), "RAW_INPUT_ACTIVE", FALSE,
                            EVENT_SENDER,
                            [input_hist EXCEPT
                               !.overwritten = @ \/ (RAW_INPUT_ACTIVE
                                                      /\ t[2] < input_hist.spawned)])

\* a caller outside every function may make one more call
MayCall(t) ==
    /\ t[1] = "caller"
    /\ thread(t).pc = "idle"
    /\ input_hist.calls < MaxApiCalls

\* a call by thread t of the public function fn, whose first step is at pc
Call(t, fn, pc) ==
    InputStep(t, [ThreadAt(pc) EXCEPT !.fn = fn, !.ret = "idle"], "none", 0, EVENT_SENDER,
              [input_hist EXCEPT !.calls = @ + 1])

\* pub fn flush_pending_mouse_events() { flush_coalesced_events(); }
FlushPendingMouseEvents(t) ==
    /\ MayCall(t)
    /\ Call(t, "flush_pending_mouse_events", "flush_swap_dx")

\* the state after start_raw_input has returned Ok through evdev and
\* set_raw_input_sender has installed a sender: the first thread is in its
\* loop, the statics that start_raw_input stores are as it left them
InputRunning(n_callers) ==
    /\ RAW_INPUT_REGISTERED = TRUE
    /\ RAW_INPUT_ACTIVE = TRUE
    /\ STOP_REQUESTED = FALSE
    /\ ACCUMULATED_DX = 0
    /\ ACCUMULATED_DY = 0
    /\ COALESCE_DX = 0
    /\ COALESCE_DY = 0
    /\ LOCAL_CURSOR_X = 960
    /\ LOCAL_CURSOR_Y = 540
    /\ LOCAL_CURSOR_WIDTH = 1920
    /\ LOCAL_CURSOR_HEIGHT = 1080
    /\ EVENT_SENDER = <<>>
    /\ input_threads = [i \in 1 .. MaxThreads |->
                           IF i = 1 THEN ThreadAt("loop_top") ELSE ThreadAt("unborn")]
    /\ callers = [i \in 1 .. n_callers |-> ThreadAt("idle")]
    /\ input_hist = [NoInputHistory EXCEPT !.spawned = 1]

\* a step inside a public function that stores x to static v and goes on at pc
Then(t, r, v, x, pc) == InputStep(t, Goto(r, pc), v, x, EVENT_SENDER, input_hist)

\* the last store of a public function, after which it returns
Last(t, r, v, x, h) == InputStep(t, Return(r), v, x, EVENT_SENDER, h)

DimsPcs == {"dims_store_width", "dims_store_height", "dims_store_x", "dims_store_y"}

\* pub fn set_local_cursor_dimensions(width: u32, height: u32)
SetLocalCursorDimensions(t) ==
    \E r \in {thread(t)} :
        /\ t[1] = "caller"
        /\ r.pc \in DimsPcs \cup {"idle"}
        /\ CASE r.pc = "idle" ->
                  /\ MayCall(t)
                  /\ \E d \in Dimensions :
                         InputStep(t, [ThreadAt("dims_store_width") EXCEPT
                                         !.fn = "set_local_cursor_dimensions",
                                         !.ret = "idle", !.width = d.width,
                                         !.height = d.height],
                                   "none", 0, EVENT_SENDER,
                                   [input_hist EXCEPT !.calls = @ + 1])
             [] r.pc = "dims_store_width" ->
                  Then(t, r, "LOCAL_CURSOR_WIDTH", r.width, "dims_store_height")
             [] r.pc = "dims_store_height" ->
                  Then(t, r, "LOCAL_CURSOR_HEIGHT", r.height, "dims_store_x")
             [] r.pc = "dims_store_x" ->
                  Then(t, r, "LOCAL_CURSOR_X", r.width \div 2, "dims_store_y")
             [] r.pc = "dims_store_y" ->
                  Last(t, r, "LOCAL_CURSOR_Y", r.height \div 2, input_hist)

ResetPcs ==
    {"reset_coalesce_dx", "reset_coalesce_dy", "reset_load_width", "reset_load_height",
     "reset_store_x", "reset_store_y"}

\* pub fn reset_coalescing()
ResetCoalescing(t) ==
    \E r \in {thread(t)} :
        /\ t[1] = "caller"
        /\ r.pc \in ResetPcs \cup {"idle"}
        /\ CASE r.pc = "idle" -> MayCall(t) /\ Call(t, "reset_coalescing", "reset_coalesce_dx")
             [] r.pc = "reset_coalesce_dx" -> Then(t, r, "COALESCE_DX", 0, "reset_coalesce_dy")
             [] r.pc = "reset_coalesce_dy" -> Then(t, r, "COALESCE_DY", 0, "reset_load_width")
             [] r.pc = "reset_load_width" ->
                  InputStep(t, [r EXCEPT !.pc = "reset_load_height",
                                         !.width = LOCAL_CURSOR_WIDTH],
                            "none", 0, EVENT_SENDER, input_hist)
             [] r.pc = "reset_load_height" ->
                  InputStep(t, [r EXCEPT !.pc = "reset_store_x",
                                         !.height = LOCAL_CURSOR_HEIGHT],
                            "none", 0, EVENT_SENDER, input_hist)
             [] r.pc = "reset_store_x" ->
                  Then(t, r, "LOCAL_CURSOR_X", r.width \div 2, "reset_store_y")
             [] r.pc = "reset_store_y" ->
                  Last(t, r, "LOCAL_CURSOR_Y", r.height \div 2, input_hist)

PausePcs == {"pause_active", "pause_accumulated_dx", "pause_accumulated_dy"}

\* pub fn pause_raw_input()
PauseRawInput(t) ==
    \E r \in {thread(t)} :
        /\ t[1] = "caller"
        /\ r.pc \in PausePcs \cup {"idle"}
        /\ CASE r.pc = "idle" -> MayCall(t) /\ Call(t, "pause_raw_input", "pause_active")
             [] r.pc = "pause_active" ->
                  Then(t, r, "RAW_INPUT_ACTIVE", FALSE, "pause_accumulated_dx")
             [] r.pc = "pause_accumulated_dx" ->
                  Then(t, r, "ACCUMULATED_DX", 0, "pause_accumulated_dy")
             [] r.pc = "pause_accumulated_dy" ->
                  Last(t, r, "ACCUMULATED_DY", 0, [input_hist EXCEPT !.paused = TRUE])

ResumePcs ==
    {"resume_load_registered", "resume_accumulated_dx", "resume_accumulated_dy",
     "resume_active"}

\* pub fn resume_raw_input()
ResumeRawInput(t) ==
    \E r \in {thread(t)} :
        /\ t[1] = "caller"
        /\ r.pc \in ResumePcs \cup {"idle"}
        /\ CASE r.pc = "idle" ->
                  /\ MayCall(t)
                  /\ InputStep(t, [ThreadAt("resume_load_registered") EXCEPT
                                     !.fn = "resume_raw_input", !.ret = "idle"],
                               "none", 0, EVENT_SENDER,
                               [input_hist EXCEPT !.calls = @ + 1, !.paused = FALSE])
             [] r.pc = "resume_load_registered" ->
                  IF RAW_INPUT_REGISTERED
                  THEN Then(t, r, "none", 0, "resume_accumulated_dx")
                  ELSE Last(t, r, "none", 0, input_hist)
             [] r.pc = "resume_accumulated_dx" ->
                  Then(t, r, "ACCUMULATED_DX", 0, "resume_accumulated_dy")
             [] r.pc = "resume_accumulated_dy" ->
                  Then(t, r, "ACCUMULATED_DY", 0, "resume_active")
             [] r.pc = "resume_active" ->
                  Last(t, r, "RAW_INPUT_ACTIVE", TRUE, input_hist)

StopPcs ==
    {"stop_requested", "stop_active", "stop_clear_sender", "stop_accumulated_dx",
     "stop_accumulated_dy", "stop_coalesce_dx", "stop_coalesce_dy", "stop_load_width",
     "stop_load_height", "stop_store_x", "stop_store_y", "stop_wait", "stop_force",
     "stop_backend"}

\* pub fn stop_raw_input()
StopRawInput(t) ==
    \E r \in {thread(t)} :
        /\ t[1] = "caller"
        /\ r.pc \in StopPcs \cup {"idle"}
        /\ CASE r.pc = "idle" -> MayCall(t) /\ Call(t, "stop_raw_input", "stop_requested")
             [] r.pc = "stop_requested" -> Then(t, r, "STOP_REQUESTED", TRUE, "stop_active")
             [] r.pc = "stop_active" ->
                  Then(t, r, "RAW_INPUT_ACTIVE", FALSE, "stop_clear_sender")
             [] r.pc = "stop_clear_sender" ->
                  InputStep(t, Goto(r, "stop_accumulated_dx"), "none", 0, "None", input_hist)
             [] r.pc = "stop_accumulated_dx" ->
                  Then(t, r, "ACCUMULATED_DX", 0, "stop_accumulated_dy")
             [] r.pc = "stop_accumulated_dy" ->
                  Then(t, r, "ACCUMULATED_DY", 0, "stop_coalesce_dx")
             [] r.pc = "stop_coalesce_dx" -> Then(t, r, "COALESCE_DX", 0, "stop_coalesce_dy")
             [] r.pc = "stop_coalesce_dy" -> Then(t, r, "COALESCE_DY", 0, "stop_load_width")
             [] r.pc = "stop_load_width" ->
                  InputStep(t, [r EXCEPT !.pc = "stop_load_height",
                                         !.width = LOCAL_CURSOR_WIDTH],
                            "none", 0, EVENT_SENDER, input_hist)
             [] r.pc = "stop_load_height" ->
                  InputStep(t, [r EXCEPT !.pc = "stop_store_x",
                                         !.height = LOCAL_CURSOR_HEIGHT],
                            "none", 0, EVENT_SENDER, input_hist)
             [] r.pc = "stop_store_x" ->
                  Then(t, r, "LOCAL_CURSOR_X", r.width \div 2, "stop_store_y")
             [] r.pc = "stop_store_y" ->
                  InputStep(t, [r EXCEPT !.pc = "stop_wait", !.width = 0, !.height = 0],
                            "LOCAL_CURSOR_Y", r.height \div 2, EVENT_SENDER, input_hist)
             [] r.pc = "stop_wait" ->
                  \* while RAW_INPUT_REGISTERED.load(): 1000 ms elapsed, or sleep 10 ms
                  IF ~RAW_INPUT_REGISTERED
                  THEN Then(t, r, "none", 0, "stop_backend")
                  ELSE \E elapsed \in BOOLEAN :
                           Then(t, r, "none", 0, IF elapsed THEN "stop_force" ELSE "stop_wait")
             [] r.pc = "stop_force" ->
                  InputStep(t, Goto(r, "stop_backend"), "RAW_INPUT_REGISTERED", FALSE,
                            EVENT_SENDER, [input_hist EXCEPT !.forced = TRUE])
             [] r.pc = "stop_backend" ->
                  \* *ACTIVE_BACKEND.lock() = InputBackend::None; sleep 50 ms
                  Last(t, r, "none", 0, input_hist)

StartPcs ==
    {"start_load_registered", "start_load_active", "start_re_accumulated_dx",
     "start_re_accumulated_dy", "start_re_coalesce_dx", "start_re_coalesce_dy",
     "start_re_active", "start_reset_stop", "start_accumulated_dx", "start_accumulated_dy",
     "start_coalesce_dx", "start_coalesce_dy", "start_find_device", "start_store_registered",
     "start_store_active", "start_spawn", "start_sleep"}

\* the raw-input threads not spawned yet
Unborn == {i \in DOMAIN input_threads : input_threads[i].pc = "unborn"}

\* pub fn start_raw_input(), with start_evdev_input inlined (the X11 fallback
\* of the x11-input feature follows the same protocol and is left out)
StartRawInput(t) ==
    \E r \in {thread(t)} :
        /\ t[1] = "caller"
        /\ r.pc \in StartPcs \cup {"idle"}
        /\ CASE r.pc = "idle" ->
                  /\ MayCall(t)
                  /\ InputStep(t, [ThreadAt("start_load_registered") EXCEPT
                                     !.fn = "start_raw_input", !.ret = "idle"],
                               "none", 0, EVENT_SENDER,
                               [input_hist EXCEPT !.calls = @ + 1, !.paused = FALSE])
             [] r.pc = "start_load_registered" ->
                  Then(t, r, "none", 0, IF RAW_INPUT_REGISTERED THEN "start_load_active"
                                        ELSE "start_reset_stop")
             [] r.pc = "start_load_active" ->
                  IF RAW_INPUT_ACTIVE
                  THEN Last(t, r, "none", 0, input_hist)
                  ELSE Then(t, r, "none", 0, "start_re_accumulated_dx")
             [] r.pc = "start_re_accumulated_dx" ->
                  Then(t, r, "ACCUMULATED_DX", 0, "start_re_accumulated_dy")
             [] r.pc = "start_re_accumulated_dy" ->
                  Then(t, r, "ACCUMULATED_DY", 0, "start_re_coalesce_dx")
             [] r.pc = "start_re_coalesce_dx" ->
                  Then(t, r, "COALESCE_DX", 0, "start_re_coalesce_dy")
             [] r.pc = "start_re_coalesce_dy" ->
                  Then(t, r, "COALESCE_DY", 0, "start_re_active")
             [] r.pc = "start_re_active" ->
                  Last(t, r, "RAW_INPUT_ACTIVE", TRUE, input_hist)
             [] r.pc = "start_reset_stop" ->
                  Then(t, r, "STOP_REQUESTED", FALSE, "start_accumulated_dx")
             [] r.pc = "start_accumulated_dx" ->
                  Then(t, r, "ACCUMULATED_DX", 0, "start_accumulated_dy")
             [] r.pc = "start_accumulated_dy" ->
                  Then(t, r, "ACCUMULATED_DY", 0, "start_coalesce_dx")
             [] r.pc = "start_coalesce_dx" ->
                  Then(t, r, "COALESCE_DX", 0, "start_coalesce_dy")
             [] r.pc = "start_coalesce_dy" ->
                  Then(t, r, "COALESCE_DY", 0, "start_find_device")
             [] r.pc = "start_find_device" ->
                  \* find_mouse_device() and Device::open: a device, or none (then
                  \* the function returns Err)
                  \E found \in BOOLEAN :
                      IF found /\ Unborn # {}
                      THEN Then(t, r, "none", 0, "start_store_registered")
                      ELSE Last(t, r, "none", 0, input_hist)
             [] r.pc = "start_store_registered" ->
                  Then(t, r, "RAW_INPUT_REGISTERED", TRUE, "start_store_active")
             [] r.pc = "start_store_active" ->
                  Then(t, r, "RAW_INPUT_ACTIVE", TRUE, "start_spawn")
             [] r.pc = "start_spawn" ->
                  \* std::thread::spawn
                  \E i \in {j \in Unborn : \A k \in Unborn : j <= k} :
                      /\ input_threads' = [input_threads EXCEPT ![i] = ThreadAt("started")]
                      /\ callers' = [callers EXCEPT ![t[2]] = Goto(r, "start_sleep")]
                      /\ Store("none", 0)
                      /\ input_hist' = [input_hist EXCEPT !.spawned = @ + 1]
                      /\ UNCHANGED <<EVENT_SENDER, decoder_vars, worker_vars, gst_vars, upd>>
             [] r.pc = "start_sleep" ->
                  \* sleep 50 ms, then if RAW_INPUT_REGISTERED.load() { return Ok(()) };
                  \* otherwise Err
                  Last(t, r, "none", 0, input_hist)

(***************************************************************************)
(* Coalescing: the raw-input thread processing device events while another *)
(* thread calls flush_pending_mouse_events.                                *)
(***************************************************************************)
InitCoalesce == DecoderUnused /\ WorkerIdle /\ GstIdle /\ UpdIdle /\ InputRunning(1)

NextCoalesce ==
    \/ \E t \in AllThreads : ThreadBody(t)
    \/ \E t \in AllThreads : ProcessMouseDelta(t)
    \/ \E t \in AllThreads : FlushCoalescedEvents(t)
    \/ \E t \in AllThreads : FlushPendingMouseEvents(t)

SpecCoalesce == InitCoalesce /\ [][NextCoalesce]_vars


(***************************************************************************)
(* C35: conservation of mouse movement through the coalescing accumulators *)
(***************************************************************************)
RECURSIVE SumSeq(_)
SumSeq(q) == IF q = <<>> THEN 0 ELSE Head(q) + SumSeq(Tail(q))

\* per axis, the sum of the deltas of the MouseMove events the channel accepted
emitted_dx == SumSeq([i \in 1 .. Len(EVENT_SENDER) |-> EVENT_SENDER[i].dx])
emitted_dy == SumSeq([i \in 1 .. Len(EVENT_SENDER) |-> EVENT_SENDER[i].dy])

\* no thread is inside process_mouse_delta or flush_coalesced_events
CoalesceQuiescent == \A t \in AllThreads : thread(t).pc \notin (PmdPcs \cup FlushPcs)

\* movement a thread holds in its locals: passed to process_mouse_delta and not
\* yet added to COALESCE, or swapped out of COALESCE and not yet sent
in_flight_dx(r) ==
    IF r.pc \in {"pmd_load_width", "pmd_load_height", "pmd_load_x", "pmd_load_y",
                 "pmd_store_x", "pmd_store_y", "pmd_add_coalesce_dx", "flush_swap_dy",
                 "flush_send"}
    THEN r.dx ELSE 0

in_flight_dy(r) ==
    IF r.pc \in {"pmd_load_width", "pmd_load_height", "pmd_load_x", "pmd_load_y",
                 "pmd_store_x", "pmd_store_y", "pmd_add_coalesce_dx", "pmd_add_coalesce_dy",
                 "flush_send"}
    THEN r.dy ELSE 0

all_in_flight_dx ==
    SumSeq([i \in 1 .. Len(input_threads) |-> in_flight_dx(input_threads[i])])
    + SumSeq([i \in 1 .. Len(callers) |-> in_flight_dx(callers[i])])

all_in_flight_dy ==
    SumSeq([i \in 1 .. Len(input_threads) |-> in_flight_dy(input_threads[i])])
    + SumSeq([i \in 1 .. Len(callers) |-> in_flight_dy(callers[i])])

\* C35: with a sender installed and its channel not full, for any interleaving
\* of process_mouse_delta on the input thread and flush_pending_mouse_events on
\* another thread no movement is lost or duplicated: per axis, the deltas of
\* the emitted MouseMove events plus the pending COALESCE value add up to the
\* deltas passed to process_mouse_delta (read at the points where no call is
\* under way, so that nothing is held in a thread's locals).
C35_MovementConserved ==
    (EVENT_SENDER # "None" /\ ~input_hist.unsent /\ CoalesceQuiescent) =>
        /\ emitted_dx + COALESCE_DX = input_hist.passed_dx
        /\ emitted_dy + COALESCE_DY = input_hist.passed_dy

\* the same accounting at every point of every interleaving, movement held in
\* locals included, as long as every flushed sum fitted the i16 fields of
\* MouseMove
CoalesceConservedWithinI16 ==
    (EVENT_SENDER # "None" /\ ~input_hist.unsent /\ ~input_hist.truncated) =>
        /\ emitted_dx + COALESCE_DX + all_in_flight_dx = input_hist.passed_dx
        /\ emitted_dy + COALESCE_DY + all_in_flight_dy = input_hist.passed_dy

\* both threads have flushed, nothing was truncated or dropped
CoalesceInterleaved ==
    /\ EVENT_SENDER # "None"
    /\ Len(EVENT_SENDER) = 2
    /\ input_hist.calls = 2
    /\ ~input_hist.unsent
    /\ ~input_hist.truncated
    /\ CoalesceQuiescent
    /\ EVENT_SENDER[1].dy # 0
    /\ EVENT_SENDER[1].dx = 0
    /\ EVENT_SENDER[2].dx # 0


(***************************************************************************)
(* The local cursor: the raw-input thread processing device events while   *)
(* other threads set the dimensions, reset the coalescing state or stop.   *)
(***************************************************************************)
InitCursor == DecoderUnused /\ WorkerIdle /\ GstIdle /\ UpdIdle /\ InputRunning(1)

NextCursor ==
    \/ \E t \in AllThreads : ThreadBody(t)
    \/ \E t \in AllThreads : ProcessMouseDelta(t)
    \/ \E t \in AllThreads : FlushCoalescedEvents(t)
    \/ \E t \in AllThreads : SetLocalCursorDimensions(t)
    \/ \E t \in AllThreads : ResetCoalescing(t)
    \/ \E t \in AllThreads : StopRawInput(t)

SpecCursor == InitCursor /\ [][NextCursor]_vars

\* no thread is between reading the cursor statics and writing them back
CursorQuiescent ==
    \A t \in AllThreads :
        thread(t).pc \notin
            (PmdPcs \cup DimsPcs
             \cup {"reset_load_width", "reset_load_height", "reset_store_x", "reset_store_y",
                   "stop_load_width", "stop_load_height", "stop_store_x", "stop_store_y"})

\* C36: the local cursor always satisfies 0 <= x <= width and 0 <= y <= height
\* for the currently stored dimensions, under any interleaving of
\* process_mouse_delta on the input thread with set_local_cursor_dimensions,
\* reset_coalescing and stop_raw_input on other threads (read at the points
\* where no thread is in the middle of updating the cursor).
C36_CursorInsideDimensions ==
    CursorQuiescent =>
        /\ 0 <= LOCAL_CURSOR_X /\ LOCAL_CURSOR_X <= LOCAL_CURSOR_WIDTH
        /\ 0 <= LOCAL_CURSOR_Y /\ LOCAL_CURSOR_Y <= LOCAL_CURSOR_HEIGHT


(***************************************************************************)
(* Pausing: the raw-input thread processing device events while another    *)
(* thread pauses and resumes raw input.                                    *)
(***************************************************************************)
InitPause == DecoderUnused /\ WorkerIdle /\ GstIdle /\ UpdIdle /\ InputRunning(1)

NextPause ==
    \/ \E t \in AllThreads : ThreadBody(t)
    \/ \E t \in AllThreads : ProcessMouseDelta(t)
    \/ \E t \in AllThreads : FlushCoalescedEvents(t)
    \/ \E t \in AllThreads : PauseRawInput(t)
    \/ \E t \in AllThreads : ResumeRawInput(t)

SpecPause == InitPause /\ [][NextPause]_vars

\* C37: after pause_raw_input has returned and until resume_raw_input or
\* start_raw_input is called, no device event changes the coalescing
\* accumulators, the legacy accumulated deltas or the local cursor: the input
\* thread calls process_mouse_delta only while RAW_INPUT_ACTIVE is true (read
\* as: no call of process_mouse_delta is made in that period; a call already
\* under way when pause_raw_input returns is not counted).
C37_PausedInputIgnored == ~input_hist.late



(***************************************************************************)
(* Thread lifecycle: stop_raw_input and start_raw_input called one after   *)
(* the other while the raw-input thread of the first session runs.         *)
(***************************************************************************)
InitThreads == DecoderUnused /\ WorkerIdle /\ GstIdle /\ UpdIdle /\ InputRunning(1)

NextThreads ==
    \/ \E t \in AllThreads : ThreadBody(t)
    \/ \E t \in AllThreads : ProcessMouseDelta(t)
    \/ \E t \in AllThreads : FlushCoalescedEvents(t)
    \/ \E t \in AllThreads : StopRawInput(t)
    \/ \E t \in AllThreads : StartRawInput(t)

SpecThreads == InitThreads /\ [][NextThreads]_vars

\* the raw-input threads that are in their event loop or handling an event
RunningThreads ==
    {i \in DOMAIN input_threads :
        input_threads[i].pc \in
            {"started", "loop_top", "fetch", "check_active", "dispatch"}
            \cup PmdPcs \cup FlushPcs}

\* C38: across any sequence of start_raw_input and stop_raw_input calls at most
\* one raw-input thread is running at a time: when stop_raw_input has returned
\* (also through its 1000 ms forced reset) the previous thread has stopped or
\* is in its cleanup, and its cleanup never clears RAW_INPUT_REGISTERED or
\* RAW_INPUT_ACTIVE of a session started afterwards.  Read between calls, so
\* that a thread in the course of being stopped is not counted.
C38_OneThreadAtATime ==
    /\ (\A i \in DOMAIN callers : callers[i].pc = "idle") => Cardinality(RunningThreads) <= 1
    /\ ~input_hist.overwritten

====
